---- MODULE Spec2Model ----
(***************************************************************************)
(* Intent pipeline of the 1inch AI copilot: the web parser                 *)
(* (frontend/lib/intentParser.ts), the CLI parser (src/ai/intentParser.ts),*)
(* the draft validator (frontend/lib/orderBuilder.ts) and the swap branch  *)
(* of the parse-command route that connects them.                          *)
(*                                                                         *)
(* Text is a sequence of one-character strings, so that the regular        *)
(* expressions, toLowerCase/toUpperCase and substring tests of the source  *)
(* are computed character by character.  Numbers read by parseFloat are    *)
(* kept in millionths (the precision of the toFixed(6) the source prints   *)
(* with); NaN is the value NaN below.                                      *)
(***************************************************************************)
EXTENDS Integers, Sequences, FiniteSets, TLC

VARIABLES
    pc,          \* position of the request being served
    command,     \* the text handed to parse
    phrase,      \* the words the text was written from (input description)
    form,        \* which phrasing family the words follow (input description)
    stage,       \* parse stage that produced the draft: pattern | ai | fallback
    draft,       \* the Draft returned by parse (NullDraft before it returns)
    threw,       \* error thrown to the caller of parse / validateDraft, or "none"
    aiCalls,     \* completion-service calls made by the current parse
    userAddress, \* whether the request carries a wallet address
    anthropicKey,\* process.env.ANTHROPIC_API_KEY is set
    apiKey,      \* process.env.ONEINCH_API_KEY is set
    validated,   \* the draft as handed to validateDraft (NullDraft if not called)
    quoteReq,    \* the quote request sent by validateDraft (NoRequest if none)
    validation,  \* the ValidationResult (NoResult before validateDraft returns)
    route,       \* the route whose handler is running: parse-command | execute-transaction
    tracker,     \* status of the trade shown to the user ("none" while there is no trade)
    execResult,  \* the answer of the execute-transaction route (NoExec before it answers)
    swapSent,    \* a request for a swap transaction payload has been made
    txSent,      \* a transaction has been handed to the wallet for sending
    dryRun,      \* the dryRun argument of the running executeIntent / the --dry-run option
    cliResult,   \* what executeIntent returned (NoCliResult before it returns)
    returned,    \* the Draft as parse returned it to the CLI handler
    printed,     \* the notice the CLI handler ended with ("none" before it ends)
    logical,     \* the predicate asked of the predicate builder
    predicate,   \* the bytes the predicate builder returned
    decoded,     \* what decodePredicate returned for them
    netCalls,    \* requests made to outside services by the component invocation running
    swapReq,     \* the request executeSwap made to the swap service
    input,       \* TradingInterface: the text of the input field
    isLoading,   \* TradingInterface: a request is being waited for
    messages,    \* TradingInterface: the messages of the conversation
    inFlight,    \* requests to /api/parse-command sent and not yet settled
    sendOutcome  \* what the last call of handleSendMessage did

\* the state of the parse-command route and of the parsers
parseVars == <<pc, command, phrase, form, stage, draft, threw, aiCalls, userAddress,
               anthropicKey, apiKey, validated, quoteReq, validation>>
parseVars_but_pc == <<command, phrase, form, stage, draft, threw, aiCalls, userAddress,
                      anthropicKey, apiKey, validated, quoteReq, validation>>
\* the state of a CLI handler and of executeIntent
cliVars == <<dryRun, cliResult, returned, printed>>
\* the state of execution: the execute-transaction route, the trade status, the CLI
execVars == <<route, tracker, execResult, swapSent, txSent, cliVars>>
\* the state of the predicate builder
predVars == <<logical, predicate, decoded>>

\* the state of the chat component
chatVars == <<input, isLoading, messages, inFlight, sendOutcome>>

vars == <<parseVars, execVars, predVars, netCalls, swapReq, chatVars>>

(***************************************************************************)
(* Bounds of the model.                                                    *)
(***************************************************************************)
\* most blanks written between two words of an input text
MaxSpaces == 2
\* most blanks written before the first word of an input text
MaxLead == 1

(***************************************************************************)
(* Characters.                                                             *)
(***************************************************************************)
LowerAlpha == <<"a","b","c","d","e","f","g","h","i","j","k","l","m",
                "n","o","p","q","r","s","t","u","v","w","x","y","z">>
UpperAlpha == <<"A","B","C","D","E","F","G","H","I","J","K","L","M",
                "N","O","P","Q","R","S","T","U","V","W","X","Y","Z">>
DigitChars == <<"0","1","2","3","4","5","6","7","8","9">>

Range(s) == {s[i] : i \in 1..Len(s)}
IndexOf(s, c) == CHOOSE i \in 1..Len(s) : s[i] = c

\* \d, \w and \s of a JavaScript regular expression without the u flag
Digit == Range(DigitChars)
WordChar == Range(LowerAlpha) \cup Range(UpperAlpha) \cup Digit \cup {"_"}
Space == {" "}

toLowerChar(c) == IF c \in Range(UpperAlpha) THEN LowerAlpha[IndexOf(UpperAlpha, c)] ELSE c
toUpperChar(c) == IF c \in Range(LowerAlpha) THEN UpperAlpha[IndexOf(LowerAlpha, c)] ELSE c

\* String.prototype.toLowerCase / toUpperCase
toLowerCase(s) == [i \in 1..Len(s) |-> toLowerChar(s[i])]
toUpperCase(s) == [i \in 1..Len(s) |-> toUpperChar(s[i])]

(***************************************************************************)
(* Words of the texts and tables below.                                    *)
(***************************************************************************)
W_swap == <<"s", "w", "a", "p">>
W_convert == <<"c", "o", "n", "v", "e", "r", "t">>
W_to == <<"t", "o">>
W_for == <<"f", "o", "r">>
W_on == <<"o", "n">>
W_if == <<"i", "f">>
W_price == <<"p", "r", "i", "c", "e">>
W_buy == <<"b", "u", "y">>
W_sell == <<"s", "e", "l", "l">>
W_trending == <<"t", "r", "e", "n", "d", "i", "n", "g">>
W_token == <<"t", "o", "k", "e", "n">>
W_tokens == <<"t", "o", "k", "e", "n", "s">>
W_show == <<"s", "h", "o", "w">>
W_eth == <<"e", "t", "h">>
W_ethereum == <<"e", "t", "h", "e", "r", "e", "u", "m">>
W_bitcoin == <<"b", "i", "t", "c", "o", "i", "n">>
W_usdc == <<"u", "s", "d", "c">>
W_usdt == <<"u", "s", "d", "t">>
W_dai == <<"d", "a", "i">>
W_weth == <<"w", "e", "t", "h">>
W_uni == <<"u", "n", "i">>
W_pepe == <<"p", "e", "p", "e">>
W_doge == <<"d", "o", "g", "e">>
W_base == <<"b", "a", "s", "e">>
W_polygon == <<"p", "o", "l", "y", "g", "o", "n">>
W_matic == <<"m", "a", "t", "i", "c">>
W_arbitrum == <<"a", "r", "b", "i", "t", "r", "u", "m">>
W_arb == <<"a", "r", "b">>
W_mars == <<"m", "a", "r", "s">>
W_hello == <<"h", "e", "l", "l", "o">>
W_everything == <<"e", "v", "e", "r", "y", "t", "h", "i", "n", "g">>
W_stop == <<"s", "t", "o", "p">>
W_now == <<"n", "o", "w">>
W_gm == <<"g", "m">>
W_ETH == <<"E", "T", "H">>
W_LINK == <<"L", "I", "N", "K">>
W_BTC == <<"B", "T", "C">>
W_USDC == <<"U", "S", "D", "C">>
W_USDT == <<"U", "S", "D", "T">>
W_DAI == <<"D", "A", "I">>
W_WETH == <<"W", "E", "T", "H">>
W_UNI == <<"U", "N", "I">>
W_PEPE == <<"P", "E", "P", "E">>
W_DOGE == <<"D", "O", "G", "E">>
N_0 == <<"0">>
N_1 == <<"1">>
N_5 == <<"5">>
N_2p5 == <<"2", ".", "5">>
N_100 == <<"1", "0", "0">>
N_15 == <<"1", "5">>
N_0p25 == <<"0", ".", "2", "5">>
N_15p50 == <<"1", "5", ".", "5", "0">>
C_ge == <<">", "=">>
C_le == <<"<", "=">>
C_gt == <<">">>
C_lt == <<"<">>
C_eq == <<"=">>

(***************************************************************************)
(* parseFloat on the strings the parser captures: digits, optionally a dot *)
(* and more digits.  The value is returned in millionths.                  *)
(***************************************************************************)
NaN == 0 - 1

DigitVal(c) == IndexOf(DigitChars, c) - 1

RECURSIVE Pow10(_)
Pow10(n) == IF n = 0 THEN 1 ELSE 10 * Pow10(n - 1)

Million == Pow10(6)

RECURSIVE DigitsValue(_)
DigitsValue(s) == IF s = <<>> THEN 0
                  ELSE 10 * DigitsValue(SubSeq(s, 1, Len(s) - 1)) + DigitVal(s[Len(s)])

RECURSIVE RunEnd(_, _, _)
\* first index at or after i whose character is not in class C (a greedy X+ from i)
RunEnd(s, i, C) == IF i <= Len(s) /\ s[i] \in C THEN RunEnd(s, i + 1, C) ELSE i

parseFloat(s) ==
    LET d == RunEnd(s, 1, Digit)
        hasFrac == d <= Len(s) /\ s[d] = "." /\ RunEnd(s, d + 1, Digit) > d + 1
        f == IF hasFrac THEN RunEnd(s, d + 1, Digit) ELSE d
        fracDigits == IF hasFrac THEN SubSeq(s, d + 1, f - 1) ELSE <<>>
        kept == IF Len(fracDigits) > 6 THEN SubSeq(fracDigits, 1, 6) ELSE fracDigits
    IN IF d = 1 THEN NaN
       ELSE DigitsValue(SubSeq(s, 1, d - 1)) * Million
            + DigitsValue(kept) * Pow10(6 - Len(kept))

(***************************************************************************)
(* frontend/lib/types.ts: ChainId, and the alias tables of the parser.     *)
(***************************************************************************)
BASE == 8453
ETHEREUM == 1
POLYGON == 137
ARBITRUM == 42161

CHAIN_PATTERNS ==
    (W_base :> BASE) @@ (W_ethereum :> ETHEREUM) @@ (W_eth :> ETHEREUM) @@
    (W_polygon :> POLYGON) @@ (W_matic :> POLYGON) @@
    (W_arbitrum :> ARBITRUM) @@ (W_arb :> ARBITRUM)

COMMON_TOKENS ==
    (W_ethereum :> W_ETH) @@ (W_bitcoin :> W_BTC) @@ (W_usdc :> W_USDC) @@
    (W_usdt :> W_USDT) @@ (W_dai :> W_DAI) @@ (W_weth :> W_WETH) @@
    (W_uni :> W_UNI) @@ (W_pepe :> W_PEPE) @@ (W_doge :> W_DOGE)

normalizeToken(token) ==
    IF toLowerCase(token) \in DOMAIN COMMON_TOKENS
    THEN COMMON_TOKENS[toLowerCase(token)]
    ELSE toUpperCase(token)

getChainId_FirstEntry(chainName) == BASE

getChainId(chainName) ==
    IF toLowerCase(chainName) \in DOMAIN CHAIN_PATTERNS
    THEN CHAIN_PATTERNS[toLowerCase(chainName)]
    ELSE BASE

(***************************************************************************)
(* Regular expressions.  A pattern is the sequence of its elements:        *)
(*   Lit(w)    the literal w (compared ignoring case: the patterns of      *)
(*             quickParseCommand all carry the i flag and are only given   *)
(*             lower-case text)                                            *)
(*   Plus(C)   X+ for a character class C, greedy                          *)
(*   Opt(p)    (?:p)?, greedy                                              *)
(*   Alt(ps)   (?:p1|p2|...), tried in order                               *)
(*   Open(k), Close(k)   the parentheses of capture group k                *)
(* exec matches a pattern at an index with the backtracking of the         *)
(* JavaScript engine: the first alternative, in priority order, for which  *)
(* the rest of the pattern matches.                                        *)
(***************************************************************************)
Lit(w) == [kind |-> "lit", w |-> w]
Plus(C) == [kind |-> "plus", class |-> C]
Opt(p) == [kind |-> "opt", sub |-> p]
Alt(ps) == [kind |-> "alt", alts |-> ps]
Open(k) == [kind |-> "open", group |-> k]
Close(k) == [kind |-> "close", group |-> k]

NoGroups == [k \in 1..5 |-> <<0, 0>>]
Fail == [ok |-> FALSE, groups |-> NoGroups]

\* the literal w stands in s at index i, ignoring case
LitAt(s, i, w) ==
    /\ i + Len(w) - 1 <= Len(s)
    /\ \A k \in 1..Len(w) : toLowerChar(s[i + k - 1]) = toLowerChar(w[k])

RECURSIVE exec(_, _, _, _)
RECURSIVE execPlus(_, _, _, _, _)
RECURSIVE execAlt(_, _, _, _, _, _)

exec(s, i, pat, groups) ==
    IF pat = <<>> THEN [ok |-> TRUE, groups |-> groups]
    ELSE LET h == Head(pat)
             t == Tail(pat)
         IN CASE h.kind = "lit" ->
                   IF LitAt(s, i, h.w) THEN exec(s, i + Len(h.w), t, groups) ELSE Fail
              [] h.kind = "plus" -> execPlus(s, i, RunEnd(s, i, h.class), t, groups)
              [] h.kind = "opt" ->
                   LET taken == exec(s, i, h.sub \o t, groups)
                   IN IF taken.ok THEN taken ELSE exec(s, i, t, groups)
              [] h.kind = "alt" -> execAlt(s, i, h.alts, 1, t, groups)
              [] h.kind = "open" ->
                   exec(s, i, t, [groups EXCEPT ![h.group] = <<i, i>>])
              [] h.kind = "close" ->
                   exec(s, i, t, [groups EXCEPT ![h.group] = <<groups[h.group][1], i>>])

\* X+ from i: the longest run first, then shorter ones, down to one character
execPlus(s, i, e, t, groups) ==
    IF e <= i THEN Fail
    ELSE LET r == exec(s, e, t, groups)
         IN IF r.ok THEN r ELSE execPlus(s, i, e - 1, t, groups)

execAlt(s, i, alts, n, t, groups) ==
    IF n > Len(alts) THEN Fail
    ELSE LET r == exec(s, i, alts[n] \o t, groups)
         IN IF r.ok THEN r ELSE execAlt(s, i, alts, n + 1, t, groups)

\* the match at the least index from i on at which the pattern matches
matchFrom(s, i, pat) ==
    LET hits == {j \in i..Len(s) : exec(s, j, pat, NoGroups).ok}
    IN IF hits = {} THEN Fail
       ELSE exec(s, CHOOSE j \in hits : \A k \in hits : j <= k, pat, NoGroups)

\* String.prototype.match without the g flag: the match at the leftmost index.
\* g1..g5 are the capture groups, the empty string for a group that did not take part.
match(s, pat) ==
    LET r == matchFrom(s, 1, pat)
        G(k) == SubSeq(s, r.groups[k][1], r.groups[k][2] - 1)
    IN [ok |-> r.ok, g1 |-> G(1), g2 |-> G(2), g3 |-> G(3), g4 |-> G(4), g5 |-> G(5)]

\* \d+(?:\.\d+)?
Number == <<Plus(Digit), Opt(<<Lit(<<".">>), Plus(Digit)>>)>>

\* /(?:swap\s+)?(\d+(?:\.\d+)?)\s+(\w+)\s+(?:to|for)\s+(\w+)(?:\s+on\s+(\w+))?/i
swapPattern ==
    <<Opt(<<Lit(W_swap), Plus(Space)>>), Open(1)>> \o Number \o
    <<Close(1), Plus(Space), Open(2), Plus(WordChar), Close(2), Plus(Space),
      Alt(<< <<Lit(W_to)>>, <<Lit(W_for)>> >>), Plus(Space),
      Open(3), Plus(WordChar), Close(3),
      Opt(<<Plus(Space), Lit(W_on), Plus(Space), Open(4), Plus(WordChar), Close(4)>>)>>

stopPattern_NoEquals ==
    <<Open(1), Alt(<< <<Lit(W_buy)>>, <<Lit(W_sell)>> >>), Close(1), Plus(Space), Open(2)>>
    \o Number \o
    <<Close(2), Plus(Space), Open(3), Plus(WordChar), Close(3), Plus(Space), Lit(W_if),
      Plus(Space), Lit(W_price), Plus(Space),
      Open(4), Alt(<< <<Lit(C_ge)>>, <<Lit(C_le)>>, <<Lit(C_gt)>>, <<Lit(C_lt)>> >>),
      Close(4), Plus(Space), Open(5)>> \o Number \o <<Close(5)>>

\* /(buy|sell)\s+(\d+(?:\.\d+)?)\s+(\w+)\s+if\s+price\s+(>=|<=|>|<|=)\s+(\d+(?:\.\d+)?)/i
stopPattern ==
    <<Open(1), Alt(<< <<Lit(W_buy)>>, <<Lit(W_sell)>> >>), Close(1), Plus(Space), Open(2)>>
    \o Number \o
    <<Close(2), Plus(Space), Open(3), Plus(WordChar), Close(3), Plus(Space), Lit(W_if),
      Plus(Space), Lit(W_price), Plus(Space),
      Open(4), Alt(<< <<Lit(C_ge)>>, <<Lit(C_le)>>, <<Lit(C_gt)>>, <<Lit(C_lt)>>, <<Lit(C_eq)>> >>),
      Close(4), Plus(Space), Open(5)>> \o Number \o <<Close(5)>>

\* /trending(?:\s+tokens?)?(?:\s+on\s+(\w+))?/i
trendingPattern ==
    <<Lit(W_trending), Opt(<<Plus(Space), Lit(W_token), Opt(<<Lit(<<"s">>)>>)>>),
      Opt(<<Plus(Space), Lit(W_on), Plus(Space), Open(1), Plus(WordChar), Close(1)>>)>>

\* the comparators a command can name
Comparators == <<C_ge, C_le, C_gt, C_lt, C_eq>>

\* String.prototype.includes
includes(s, w) == \E i \in 1..Len(s) : i + Len(w) - 1 <= Len(s) /\ SubSeq(s, i, i + Len(w) - 1) = w

(***************************************************************************)
(* TradingDraft (frontend/lib/types.ts).  An optional text field that is   *)
(* not set is the empty string (the source tests presence with !field, for *)
(* which undefined and "" are alike); an optional number that is not set   *)
(* is Undef; reverse is "absent", "true" or "false".  The Draft of the CLI *)
(* (src/types) is kept in the same record: its trigger is the field price, *)
(* and deadline is a field of the CLI alone.                               *)
(***************************************************************************)
Undef == 0 - 2

Draft(mode, chain) ==
    [mode |-> mode, src |-> <<>>, dst |-> <<>>, amount |-> <<>>, reverse |-> "absent",
     chain |-> chain, slippage |-> Undef, action |-> <<>>, token |-> <<>>,
     condition |-> <<>>, price |-> Undef, deadline |-> Undef]

\* the value null of quickParseCommand, and of the variables before parse returns
NullDraft == Draft("null", 0)

quickParseCommand(cmd) ==
    LET swapMatch == match(cmd, swapPattern)
        stopMatch == match(cmd, stopPattern)
        trendingMatch == match(cmd, trendingPattern)
    IN IF swapMatch.ok
       THEN [Draft("swap", IF swapMatch.g4 # <<>> THEN getChainId(swapMatch.g4) ELSE BASE)
                EXCEPT !.src = normalizeToken(swapMatch.g2),
                       !.dst = normalizeToken(swapMatch.g3),
                       !.amount = swapMatch.g1]
       ELSE IF stopMatch.ok
       THEN [Draft("stop", BASE) EXCEPT
                !.action = stopMatch.g1, !.token = normalizeToken(stopMatch.g3),
                !.amount = stopMatch.g2, !.condition = stopMatch.g4,
                !.price = parseFloat(stopMatch.g5)]
       ELSE IF trendingMatch.ok
       THEN Draft("trending", IF trendingMatch.g1 # <<>> THEN getChainId(trendingMatch.g1) ELSE BASE)
       ELSE NullDraft

fallbackParse(cmd) ==
    LET lower == toLowerCase(cmd)
    IN IF includes(lower, W_swap) \/ includes(lower, W_to) THEN Draft("swap", BASE)
       ELSE IF includes(lower, W_sell) \/ includes(lower, W_buy) \/ includes(lower, W_stop)
            THEN Draft("stop", BASE)
       ELSE IF includes(lower, W_trending) THEN Draft("trending", BASE)
       ELSE Draft("unknown", BASE)

\* the argument parse hands to quickParseCommand
quickInput_AsTyped(cmd) == cmd

quickInput(cmd) == toLowerCase(cmd)

(***************************************************************************)
(* Input texts: words written with 1..MaxSpaces blanks between them, up to *)
(* MaxLead blanks in front, in lower or in upper case.                     *)
(***************************************************************************)
Blanks(n) == [i \in 1..n |-> " "]

RECURSIVE Join(_, _)
Join(words, n) == IF Len(words) = 0 THEN <<>>
                  ELSE IF Len(words) = 1 THEN words[1]
                  ELSE words[1] \o Blanks(n) \o Join(Tail(words), n)

Render(words, n, lead, upper) ==
    LET t == Blanks(lead) \o Join(words, n)
    IN IF upper THEN toUpperCase(t) ELSE t

SwapPhrases ==
    {pre \o <<n, a, c, b>> \o ch :
        pre \in {<<>>, <<W_swap>>}, n \in {N_1, N_0}, a \in {W_eth, W_ethereum},
        c \in {W_to, W_for}, b \in {W_usdc, W_pepe},
        ch \in {<<>>, <<W_on, W_base>>, <<W_on, W_polygon>>, <<W_on, W_mars>>}}

ReversePhrases ==
    {<<W_swap, a, W_to, n, b>> : a \in {W_eth, W_ethereum}, n \in {N_5, N_2p5}, b \in {W_usdc, W_dai}}

StopPhrases ==
    {<<v, n, t, W_if, W_price, c, p>> :
        v \in {W_buy, W_sell}, n \in {N_100, N_0p25}, t \in {W_uni, W_ethereum},
        c \in Range(Comparators), p \in {N_15, N_15p50}}

TrendingPhrases ==
    {<<W_trending>>, <<W_trending, W_tokens>>, <<W_trending, W_token, W_on, W_polygon>>,
     <<W_show, W_trending, W_tokens, W_on, W_base>>, <<W_trending, W_on, W_mars>>}

OtherPhrases ==
    {<<W_hello>>, <<W_gm>>, <<W_swap>>, <<W_sell, W_everything>>, <<W_buy, W_now>>,
     <<W_stop>>, <<W_show, W_tokens>>}

Phrases(f) ==
    CASE f = "swap" -> SwapPhrases
      [] f = "reverse" -> ReversePhrases
      [] f = "stop" -> StopPhrases
      [] f = "trending" -> TrendingPhrases
      [] f = "other" -> OtherPhrases

Forms == {"swap", "reverse", "stop", "trending", "other"}

(***************************************************************************)
(* Objects the completion service can return under TradingDraftSchema.     *)
(***************************************************************************)
OPTIMISM == 10

AIObjects ==
    {[Draft("swap", BASE) EXCEPT !.src = W_ETH, !.dst = W_USDC, !.amount = N_5, !.reverse = "true"],
     [Draft("swap", BASE) EXCEPT !.src = W_ETH, !.dst = W_USDC, !.amount = N_5],
     [Draft("swap", BASE) EXCEPT !.src = W_ETH, !.dst = W_DAI, !.amount = N_1,
                                 !.reverse = "false", !.slippage = 1],
     [Draft("swap", BASE) EXCEPT !.dst = W_USDC, !.amount = N_5, !.reverse = "true"],
     [Draft("swap", BASE) EXCEPT !.src = W_ETH, !.dst = W_USDC],
     [Draft("swap", BASE) EXCEPT !.src = W_ETH, !.dst = W_PEPE, !.amount = N_5],
     [Draft("swap", OPTIMISM) EXCEPT !.src = W_ETH, !.dst = W_USDC, !.amount = N_5],
     [Draft("swap", BASE) EXCEPT !.src = W_eth, !.dst = W_usdc, !.amount = N_0, !.reverse = "true"],
     [Draft("stop", BASE) EXCEPT !.action = W_sell, !.token = W_UNI, !.amount = N_100,
                                 !.condition = C_ge, !.price = 15 * Million],
     [Draft("stop", BASE) EXCEPT !.token = W_UNI],
     Draft("trending", POLYGON), Draft("unknown", BASE)}

(***************************************************************************)
(* frontend/lib/orderBuilder.ts: validateDraft.                            *)
(* Wei quantities are counted in units of 10^12 wei, which is one          *)
(* millionth of a token at the 18 decimals the source assumes, so that the *)
(* division by 10^18 followed by toFixed(6) is exact on them.              *)
(***************************************************************************)
TOKEN_ADDRESSES == (BASE :> {W_ETH, W_USDC, W_USDT, W_DAI})

\* TOKEN_ADDRESSES[chain]?.[symbol] is defined
hasAddress(chain, symbol) == chain \in DOMAIN TOKEN_ADDRESSES /\ symbol \in TOKEN_ADDRESSES[chain]

RECURSIVE IntStr(_)
IntStr(n) == IF n < 10 THEN <<DigitChars[n + 1]>>
             ELSE IntStr(n \div 10) \o <<DigitChars[(n % 10) + 1]>>

PadLeft(s, n) == [i \in 1..(n - Len(s)) |-> "0"] \o s

\* Number.prototype.toFixed(6) of a value given in millionths
toFixed6(u) ==
    IF u = NaN THEN <<"N", "a", "N">>
    ELSE IntStr(u \div Million) \o <<".">> \o PadLeft(IntStr(u % Million), 6)

RECURSIVE MulDiv(_, _, _)
\* <<q, r>> with a * b = q * c + r and 0 <= r < c, without forming a * b
MulDiv(a, b, c) ==
    IF a = 0 THEN <<0, 0>>
    ELSE LET half == MulDiv(a \div 2, b, c)
             t == 2 * half[2] + (a % 2) * b
         IN <<2 * half[1] + (t \div c), t % c>>

\* a * b / c rounded to the nearest integer
MulDivRound(a, b, c) ==
    LET qr == MulDiv(a, b, c) IN qr[1] + (IF 2 * qr[2] >= c THEN 1 ELSE 0)

\* (parseFloat(amount) * 10^18).toString(), in units of 10^12 wei
parseTokenAmount(amount) == parseFloat(amount)

\* (parseInt(amount) / 10^18).toFixed(6), amount in units of 10^12 wei
formatTokenAmount(amount) == IF amount = Undef THEN toFixed6(NaN) ELSE toFixed6(amount)

\* the provisional input of a reverse quote, parseTokenAmount('0.1', 18)
ProbeAmount == parseTokenAmount(<<"0", ".", "1">>)

DefaultGasLimit == 21000

\* gas price 20 gwei: gasLimit * 20e9 / 1e18 ether, printed with toFixed(6)
formatGasEstimate(gasAmount) ==
    LET gasLimit == IF gasAmount = Undef \/ gasAmount <= 0 THEN DefaultGasLimit ELSE gasAmount
    IN toFixed6(MulDivRound(gasLimit, 1, 50))

NoRequest == [sent |-> FALSE, chain |-> 0, src |-> <<>>, dst |-> <<>>, amount |-> Undef,
              slippage |-> Undef]

\* the fields of the interface ValidationResult
ValidationResultFields == {"valid", "error", "estimatedGas", "inputAmount", "outputAmount", "quote"}

NoResult == [returned |-> FALSE, valid |-> FALSE, error |-> "", estimatedGas |-> <<>>,
             inputAmount |-> <<>>, outputAmount |-> <<>>, hasQuote |-> FALSE]

Invalid(message) == [NoResult EXCEPT !.returned = TRUE, !.error = message]

\* the messages validateDraft returns, by their fixed text
MsgMissingFields == "Missing required fields for swap validation"
MsgNoApiKey == "1inch API key not configured"
MsgUnsupportedPair == "Unsupported token pair"
MsgApiError == "1inch API error"
MsgValidationFailed == "Validation failed"

\* validateDraft up to its fetch: the result it returns early, or NoResult when it goes on
validateDraft_checks_NoPairCheck(d, key) ==
    IF d.src = <<>> \/ d.dst = <<>> \/ d.amount = <<>> THEN Invalid(MsgMissingFields)
    ELSE IF ~key THEN Invalid(MsgNoApiKey)
    ELSE NoResult

validateDraft_checks_PairAsMissing(d, key) ==
    IF d.src = <<>> \/ d.dst = <<>> \/ d.amount = <<>> THEN Invalid(MsgMissingFields)
    ELSE IF ~key THEN Invalid(MsgNoApiKey)
    ELSE IF ~hasAddress(d.chain, toUpperCase(d.src)) \/ ~hasAddress(d.chain, toUpperCase(d.dst))
         THEN Invalid(MsgMissingFields)
    ELSE NoResult

validateDraft_checks(d, key) ==
    IF d.src = <<>> \/ d.dst = <<>> \/ d.amount = <<>> THEN Invalid(MsgMissingFields)
    ELSE IF ~key THEN Invalid(MsgNoApiKey)
    ELSE IF ~hasAddress(d.chain, toUpperCase(d.src)) \/ ~hasAddress(d.chain, toUpperCase(d.dst))
         THEN Invalid(MsgUnsupportedPair)
    ELSE NoResult

\* the quote request validateDraft builds
quoteRequest(d) ==
    [sent |-> TRUE, chain |-> d.chain, src |-> toUpperCase(d.src), dst |-> toUpperCase(d.dst),
     amount |-> IF d.reverse = "true" THEN ProbeAmount ELSE parseTokenAmount(d.amount),
     slippage |-> d.slippage]

\* validateDraft after a quote came back with status ok and body q
validateDraft_result(d, q) ==
    LET from == q.fromTokenAmount
        to == q.toTokenAmount
        desired == parseTokenAmount(d.amount)
        inputAmount ==
            IF d.reverse = "true"
            THEN IF from # Undef /\ from > 0 /\ to # Undef /\ to > 0
                 THEN IF desired = NaN THEN toFixed6(NaN)
                      ELSE toFixed6(MulDivRound(desired, from, to))
                 ELSE <<"0", ".", "0", "0", "0", "3">>
            ELSE d.amount
        outputAmount == IF d.reverse = "true" THEN d.amount ELSE formatTokenAmount(to)
    IN [returned |-> TRUE, valid |-> TRUE, error |-> "",
        estimatedGas |-> formatGasEstimate(q.gas),
        inputAmount |-> inputAmount, outputAmount |-> outputAmount, hasQuote |-> TRUE]

\* bodies the quote service can answer a request with
QuoteBodies(req) ==
    {[fromTokenAmount |-> req.amount, toTokenAmount |-> 250 * Million, gas |-> 150000],
     [fromTokenAmount |-> req.amount, toTokenAmount |-> 250 * Million, gas |-> Undef],
     [fromTokenAmount |-> req.amount, toTokenAmount |-> 0, gas |-> 150000],
     [fromTokenAmount |-> Undef, toTokenAmount |-> Undef, gas |-> Undef]}

(***************************************************************************)
(* frontend/app/api/execute-transaction/route.ts: the answers of the       *)
(* route, by their type and fixed text.                                    *)
(***************************************************************************)
W_CBETH == <<"C", "B", "E", "T", "H">>
W_COMP == <<"C", "O", "M", "P">>

\* TOKEN_ADDRESSES of executeSwap
EXEC_TOKEN_ADDRESSES == (BASE :> {W_ETH, W_WETH, W_USDC, W_USDT, W_DAI, W_CBETH, W_COMP})

NoExec == [returned |-> FALSE, success |-> FALSE, type |-> "none", error |-> ""]

ExecAnswer(success, type, error) ==
    [returned |-> TRUE, success |-> success, type |-> type, error |-> error]

MsgDraftRequired == "Draft and user address are required"
MsgExecNoApiKey == "1inch API key not configured"
MsgExecMissingFields == "Missing required fields: src, dst, and amount are required"
MsgNotImplemented == "Stop orders require additional implementation for order signing"
MsgUnsupportedType == "Unsupported transaction type"
MsgPreparationFailed == "Failed to prepare swap"

\* executeSwap up to its fetch: the answer it returns early, or NoExec when it goes on
executeSwap_checks(d, key) ==
    IF ~key THEN ExecAnswer(FALSE, "configuration_error", MsgExecNoApiKey)
    ELSE IF d.src = <<>> \/ d.dst = <<>> \/ d.amount = <<>>
         THEN ExecAnswer(FALSE, "validation_error", MsgExecMissingFields)
    ELSE IF \/ d.chain \notin DOMAIN EXEC_TOKEN_ADDRESSES
            \/ toUpperCase(d.src) \notin EXEC_TOKEN_ADDRESSES[d.chain]
            \/ toUpperCase(d.dst) \notin EXEC_TOKEN_ADDRESSES[d.chain]
         THEN ExecAnswer(FALSE, "invalid_tokens", MsgUnsupportedPair)
    ELSE NoExec

\* executeStopOrder
executeStopOrder(d) == ExecAnswer(FALSE, "not_implemented", MsgNotImplemented)

POST_execute_dispatch_IgnoreValidation(d, v, key) ==
    IF d.mode = "swap" THEN executeSwap_checks(d, key)
    ELSE IF d.mode = "stop" THEN executeStopOrder(d)
    ELSE ExecAnswer(FALSE, "unsupported_operation", MsgUnsupportedType)

\* POST of the execute-transaction route once validateDraft has returned v: the answer
\* it gives without asking the swap service, or NoExec when executeSwap goes on to ask
POST_execute_dispatch(d, v, key) ==
    IF ~v.valid THEN ExecAnswer(FALSE, "validation_error", v.error)
    ELSE IF d.mode = "swap" THEN executeSwap_checks(d, key)
    ELSE IF d.mode = "stop" THEN executeStopOrder(d)
    ELSE ExecAnswer(FALSE, "unsupported_operation", MsgUnsupportedType)

\* the swap request executeSwap builds
swapRequest(d) ==
    [sent |-> TRUE, chain |-> d.chain, src |-> toUpperCase(d.src), dst |-> toUpperCase(d.dst),
     amount |-> parseTokenAmount(d.amount),
     slippage |-> IF d.slippage = Undef \/ d.slippage = 0 THEN 1 ELSE d.slippage]

\* bodies the swap service can answer with: with and without the tx object
SwapBodies == {[hasTx |-> TRUE], [hasTx |-> FALSE]}

\* status of the trade the parse-command route answers with
tradeStatus(d, addr, v) ==
    IF d.mode = "swap"
    THEN IF ~addr THEN "none" ELSE IF v.valid THEN "pending" ELSE "error"
    ELSE IF d.mode = "stop" THEN (IF addr THEN "pending" ELSE "error")
    ELSE "none"

\* where validateDraft returns to
afterValidate == IF route = "execute" THEN "execValidated" ELSE "respond"

(***************************************************************************)
(* src/core/predicateBuilder.ts: predicates of the limit-order protocol.   *)
(* Bytes are numbers 0..255 and an encoded predicate is a sequence of      *)
(* bytes, laid out as AbiCoder.encode lays out its 32-byte words: a bytes4 *)
(* is padded on the right, an address and a uint256 on the left, and a     *)
(* dynamic bytes value is an offset in the head and a length word followed *)
(* by the padded data in the tail.  A target price is kept in millionths,  *)
(* so that targetPrice * 1e8 is a hundred times the number kept.           *)
(***************************************************************************)
Zeros(n) == [i \in 1..n |-> 0]

WordSize == 32
AddressSize == 20

\* a uint256 (of a number below 2^31), a bytes4 and an address as one word each
uintWord(n) ==
    Zeros(WordSize - 4) \o <<(n \div 16777216) % 256, (n \div 65536) % 256, (n \div 256) % 256, n % 256>>
bytes4Word(b) == b \o Zeros(WordSize - Len(b))
addressWord(a) == Zeros(WordSize - AddressSize) \o a

\* a dynamic bytes value in the tail: its length, then the data padded to whole words
bytesTail(b) == uintWord(Len(b)) \o b \o Zeros((WordSize - (Len(b) % WordSize)) % WordSize)

PREDICATE_SELECTORS ==
    [GT |-> <<59, 56, 211, 201>>, LT |-> <<60, 178, 229, 180>>, EQ |-> <<36, 212, 172, 84>>,
     AND |-> <<75, 163, 194, 252>>, OR |-> <<75, 163, 195, 0>>,
     TIMESTAMP_BELOW |-> <<99, 89, 44, 43>>]

\* PRICE_FEEDS of src/types: the feed address of a symbol; every feed is on Ethereum
PRICE_FEEDS ==
    (W_ETH :> <<95, 78, 195, 223, 156, 189, 67, 113, 79, 226, 116, 15, 94,
              54, 22, 21, 92, 91, 132, 25>>) @@
    (W_BTC :> <<244, 3, 0, 134, 82, 42, 91, 238, 164, 152, 143, 140, 165,
              179, 109, 188, 151, 190, 232, 140>>) @@
    (W_UNI :> <<85, 51, 3, 212, 96, 238, 10, 251, 55, 237, 255, 155, 228,
              41, 34, 216, 255, 99, 34, 14>>) @@
    (W_LINK :> <<44, 29, 7, 46, 149, 106, 255, 192, 212, 53, 203, 122, 195,
              142, 241, 141, 36, 217, 18, 124>>)

\* Math.round(targetPrice * 1e8) of a price kept in millionths
priceUint(targetPrice) == targetPrice * 100

buildGtPrice(feedAddress, targetPrice) ==
    bytes4Word(PREDICATE_SELECTORS.GT) \o addressWord(feedAddress)
        \o uintWord(priceUint(targetPrice))

buildLtPrice(feedAddress, targetPrice) ==
    bytes4Word(PREDICATE_SELECTORS.LT) \o addressWord(feedAddress)
        \o uintWord(priceUint(targetPrice))

buildEqPrice(feedAddress, targetPrice) ==
    bytes4Word(PREDICATE_SELECTORS.EQ) \o addressWord(feedAddress)
        \o uintWord(priceUint(targetPrice))

buildTimestampAfter(timestamp) ==
    bytes4Word(PREDICATE_SELECTORS.TIMESTAMP_BELOW) \o uintWord(timestamp)

\* AbiCoder.encode(['bytes4', 'bytes', 'bytes'], [selector, b1, b2])
encodeComposite(selector, b1, b2) ==
    bytes4Word(selector) \o uintWord(3 * WordSize)
        \o uintWord(3 * WordSize + Len(bytesTail(b1)))
        \o bytesTail(b1) \o bytesTail(b2)

buildAndPredicate(predicate1, predicate2) ==
    encodeComposite(PREDICATE_SELECTORS.AND, predicate1, predicate2)

buildOrPredicate(predicate1, predicate2) ==
    encodeComposite(PREDICATE_SELECTORS.OR, predicate1, predicate2)

Decoded(selector, address, value) ==
    [returned |-> TRUE, error |-> FALSE, selector |-> selector, address |-> address,
     value |-> value]
DecodeFailed ==
    [returned |-> TRUE, error |-> TRUE, selector |-> <<>>, address |-> <<>>, value |-> <<>>]

\* the i-th 32-byte word of data
wordAt(data, i) == SubSeq(data, (i - 1) * WordSize + 1, i * WordSize)

\* AbiCoder.decode(['bytes4', 'address', 'uint256'], data) succeeds: three words can be
\* read and the address word fits 20 bytes; bytes after the third word are not looked at
decodes3(data) ==
    /\ Len(data) >= 3 * WordSize
    /\ SubSeq(wordAt(data, 2), 1, WordSize - AddressSize) = Zeros(WordSize - AddressSize)

\* AbiCoder.decode(['bytes4', 'uint256'], data) succeeds: two words can be read
decodes2(data) == Len(data) >= 2 * WordSize

\* decodePredicate: the value of a decoded uint256 is kept as its word (its decimal
\* text is determined by the word and determines it)
decodePredicate(predicateData) ==
    IF decodes3(predicateData)
    THEN Decoded(SubSeq(predicateData, 1, 4),
                 SubSeq(wordAt(predicateData, 2), WordSize - AddressSize + 1, WordSize),
                 wordAt(predicateData, 3))
    ELSE IF decodes2(predicateData)
    THEN Decoded(SubSeq(predicateData, 1, 4), <<>>, wordAt(predicateData, 2))
    ELSE DecodeFailed

\* executeIntent has not returned
NoCliResult == [returned |-> FALSE, success |-> FALSE, message |-> ""]

\* no predicate has been asked for / built / decoded
NoPredicate == [type |-> "none", feed |-> <<>>, value |-> 0, kids |-> <<>>]
NoDecoded == [returned |-> FALSE, error |-> FALSE, selector |-> <<>>, address |-> <<>>,
              value |-> <<>>]

\* execution and the predicate builder at rest
\* a message of the conversation: its type and its content
Message(type, content) == [type |-> type, content |-> content]

\* the greeting the conversation starts with
Greeting == Message("assistant", <<"greeting">>)

\* the chat component as it is mounted
chatIdle ==
    /\ input = <<>>
    /\ isLoading = FALSE
    /\ messages = <<Greeting>>
    /\ inFlight = 0
    /\ sendOutcome = "none"

execIdle ==
    /\ route = "parse"
    /\ tracker = "none"
    /\ execResult = NoExec
    /\ swapSent = FALSE
    /\ txSent = FALSE
    /\ dryRun = FALSE
    /\ cliResult = NoCliResult
    /\ returned = NullDraft
    /\ printed = "none"
    /\ netCalls = 0
    /\ swapReq = NoRequest

predIdle ==
    /\ logical = NoPredicate
    /\ predicate = <<>>
    /\ decoded = NoDecoded

(***************************************************************************)
(* The state machine.                                                      *)
(***************************************************************************)
Init ==
    /\ pc = "idle"
    /\ command = <<>>
    /\ phrase = <<>>
    /\ form = "none"
    /\ stage = "none"
    /\ draft = NullDraft
    /\ threw = "none"
    /\ aiCalls = 0
    /\ userAddress = FALSE
    /\ anthropicKey \in BOOLEAN
    /\ apiKey \in BOOLEAN
    /\ validated = NullDraft
    /\ quoteReq = NoRequest
    /\ validation = NoResult
    /\ execIdle
    /\ predIdle
    /\ chatIdle

\* parse of frontend/lib/intentParser.ts, up to its return or its await
parse ==
    /\ pc = "idle"
    /\ \E f \in Forms : \E words \in Phrases(f) : \E n \in 1..MaxSpaces :
       \E lead \in 0..MaxLead : \E upper \in BOOLEAN : \E addr \in BOOLEAN :
         LET cmd == Render(words, n, lead, upper)
             quickParse == quickParseCommand(quickInput(cmd))
         IN /\ command' = cmd
            /\ phrase' = words
            /\ form' = f
            /\ userAddress' = addr
            /\ IF quickParse # NullDraft
               THEN /\ draft' = quickParse
                    /\ stage' = "pattern"
                    /\ pc' = "parsed"
                    /\ aiCalls' = 0
               ELSE IF ~anthropicKey
               THEN /\ draft' = fallbackParse(cmd)
                    /\ stage' = "fallback"
                    /\ pc' = "parsed"
                    /\ aiCalls' = 0
               ELSE /\ draft' = NullDraft
                    /\ stage' = "none"
                    /\ pc' = "awaitAI"
                    /\ aiCalls' = 1
    /\ UNCHANGED <<threw, anthropicKey, apiKey, validated, quoteReq, validation>>
    /\ UNCHANGED <<execVars, predVars>>
    /\ netCalls' = IF pc' = "awaitAI" THEN 1 ELSE 0
    /\ UNCHANGED swapReq
    /\ UNCHANGED chatVars

\* generateObject resolves: parse returns the object
parse_aiResolved ==
    /\ pc = "awaitAI"
    /\ \E object \in AIObjects : draft' = object
    /\ stage' = "ai"
    /\ pc' = "parsed"
    /\ UNCHANGED <<command, phrase, form, threw, aiCalls, userAddress, anthropicKey, apiKey,
                   validated, quoteReq, validation>>
    /\ UNCHANGED <<execVars, predVars>>
    /\ UNCHANGED netCalls
    /\ UNCHANGED swapReq
    /\ UNCHANGED chatVars

\* generateObject rejects: the catch block of parse returns fallbackParse(command)
parse_aiRejected ==
    /\ pc = "awaitAI"
    /\ draft' = fallbackParse(command)
    /\ stage' = "fallback"
    /\ pc' = "parsed"
    /\ UNCHANGED <<command, phrase, form, threw, aiCalls, userAddress, anthropicKey, apiKey,
                   validated, quoteReq, validation>>
    /\ UNCHANGED <<execVars, predVars>>
    /\ UNCHANGED netCalls
    /\ UNCHANGED swapReq
    /\ UNCHANGED chatVars

\* the route's switch on draft.mode: only a swap with a wallet address is validated
POST_switch ==
    /\ pc = "parsed"
    /\ pc' = IF draft.mode = "swap" /\ userAddress THEN "validate" ELSE "respond"
    /\ UNCHANGED <<command, phrase, form, stage, draft, threw, aiCalls, userAddress,
                   anthropicKey, apiKey, validated, quoteReq, validation>>
    /\ UNCHANGED <<execVars, predVars>>
    /\ UNCHANGED netCalls
    /\ UNCHANGED swapReq
    /\ UNCHANGED chatVars

\* validateDraft up to its return or its fetch
validateDraft ==
    /\ pc = "validate"
    /\ validated' = draft
    /\ LET early == validateDraft_checks(draft, apiKey)
       IN IF early.returned
          THEN /\ validation' = early
               /\ quoteReq' = NoRequest
               /\ pc' = afterValidate
          ELSE /\ validation' = NoResult
               /\ quoteReq' = quoteRequest(draft)
               /\ pc' = "awaitQuote"
    /\ UNCHANGED <<command, phrase, form, stage, draft, threw, aiCalls, userAddress,
                   anthropicKey, apiKey>>
    /\ UNCHANGED <<execVars, predVars>>
    /\ netCalls' = IF pc' = "awaitQuote" THEN 1 ELSE 0
    /\ UNCHANGED swapReq
    /\ UNCHANGED chatVars

\* the quote service answers 200 with a body
validateDraft_quoteOk ==
    /\ pc = "awaitQuote"
    /\ \E q \in QuoteBodies(quoteReq) : validation' = validateDraft_result(validated, q)
    /\ pc' = afterValidate
    /\ UNCHANGED <<command, phrase, form, stage, draft, threw, aiCalls, userAddress,
                   anthropicKey, apiKey, validated, quoteReq>>
    /\ UNCHANGED <<execVars, predVars>>
    /\ UNCHANGED netCalls
    /\ UNCHANGED swapReq
    /\ UNCHANGED chatVars

\* the quote service answers with an error status
validateDraft_quoteHttpError ==
    /\ pc = "awaitQuote"
    /\ validation' = Invalid(MsgApiError)
    /\ pc' = afterValidate
    /\ UNCHANGED <<command, phrase, form, stage, draft, threw, aiCalls, userAddress,
                   anthropicKey, apiKey, validated, quoteReq>>
    /\ UNCHANGED <<execVars, predVars>>
    /\ UNCHANGED netCalls
    /\ UNCHANGED swapReq
    /\ UNCHANGED chatVars

\* fetch, response.text() or response.json() throws: the catch block returns
validateDraft_quoteThrows ==
    /\ pc = "awaitQuote"
    /\ validation' = Invalid(MsgValidationFailed)
    /\ pc' = afterValidate
    /\ UNCHANGED <<command, phrase, form, stage, draft, threw, aiCalls, userAddress,
                   anthropicKey, apiKey, validated, quoteReq>>
    /\ UNCHANGED <<execVars, predVars>>
    /\ UNCHANGED netCalls
    /\ UNCHANGED swapReq
    /\ UNCHANGED chatVars

\* the route answers.  A trade with status pending stays with the user, who may
\* confirm it; otherwise the next request starts from scratch
POST_respond ==
    /\ pc = "respond"
    /\ command' = <<>>
    /\ phrase' = <<>>
    /\ form' = "none"
    /\ stage' = "none"
    /\ threw' = "none"
    /\ aiCalls' = 0
    /\ validated' = NullDraft
    /\ quoteReq' = NoRequest
    /\ validation' = NoResult
    /\ IF tradeStatus(draft, userAddress, validation) = "pending"
       THEN /\ pc' = "pending"
            /\ tracker' = "Pending"
            /\ UNCHANGED <<draft, userAddress>>
       ELSE /\ pc' = "idle"
            /\ draft' = NullDraft
            /\ userAddress' = FALSE
            /\ UNCHANGED tracker
    /\ UNCHANGED <<anthropicKey, apiKey, route, execResult, swapSent, txSent, cliVars, predVars>>
    /\ netCalls' = 0
    /\ UNCHANGED swapReq
    /\ UNCHANGED chatVars

\* the user confirms the pending trade: the payload is asked of the execution backend
tracker_confirm ==
    /\ pc = "pending"
    /\ tracker = "Pending"
    /\ tracker' = "Preparing"
    /\ route' = "execute"
    /\ pc' = "execute"
    /\ UNCHANGED <<parseVars_but_pc, execResult, swapSent, txSent, cliVars, predVars>>
    /\ UNCHANGED netCalls
    /\ UNCHANGED swapReq
    /\ UNCHANGED chatVars

\* POST of the execute-transaction route up to its call of validateDraft
POST_execute ==
    /\ pc = "execute"
    /\ IF draft = NullDraft \/ ~userAddress
       THEN /\ execResult' = ExecAnswer(FALSE, "bad_request", MsgDraftRequired)
            /\ pc' = "execDone"
       ELSE /\ execResult' = execResult
            /\ pc' = "validate"
    /\ UNCHANGED <<parseVars_but_pc, route, tracker, swapSent, txSent, cliVars, predVars>>
    /\ UNCHANGED netCalls
    /\ UNCHANGED swapReq
    /\ UNCHANGED chatVars

\* validateDraft has returned: the route answers, or executeSwap asks the swap service
POST_execute_switch ==
    /\ pc = "execValidated"
    /\ LET early == POST_execute_dispatch(draft, validation, apiKey)
       IN IF early.returned
          THEN /\ execResult' = early
               /\ swapSent' = swapSent
               /\ pc' = "execDone"
          ELSE /\ execResult' = execResult
               /\ swapSent' = TRUE
               /\ pc' = "awaitSwap"
    /\ UNCHANGED <<parseVars_but_pc, route, tracker, txSent, cliVars,
                   predVars>>
    /\ netCalls' = IF pc' = "awaitSwap" THEN 1 ELSE 0
    /\ swapReq' = IF pc' = "awaitSwap" THEN swapRequest(draft) ELSE swapReq
    /\ UNCHANGED chatVars

\* the swap service answers 200: the payload is returned, unless the body has no tx
\* (reading swapData.tx.to then throws into the catch block)
executeSwap_ok ==
    /\ pc = "awaitSwap"
    /\ \E body \in SwapBodies :
         execResult' = IF body.hasTx THEN ExecAnswer(TRUE, "swap_ready", "")
                       ELSE ExecAnswer(FALSE, "preparation_error", MsgPreparationFailed)
    /\ pc' = "execDone"
    /\ UNCHANGED <<parseVars_but_pc, route, tracker, swapSent, txSent, cliVars, predVars>>
    /\ UNCHANGED netCalls
    /\ UNCHANGED swapReq
    /\ UNCHANGED chatVars

\* the swap service answers with an error status
executeSwap_httpError ==
    /\ pc = "awaitSwap"
    /\ execResult' = ExecAnswer(FALSE, "api_error", MsgApiError)
    /\ pc' = "execDone"
    /\ UNCHANGED <<parseVars_but_pc, route, tracker, swapSent, txSent, cliVars, predVars>>
    /\ UNCHANGED netCalls
    /\ UNCHANGED swapReq
    /\ UNCHANGED chatVars

executeSwap_throws_DropsMessage ==
    /\ pc = "awaitSwap"
    /\ execResult' = ExecAnswer(FALSE, "preparation_error", "")
    /\ pc' = "execDone"
    /\ UNCHANGED <<parseVars_but_pc, route, tracker, swapSent, txSent, cliVars, predVars>>
    /\ UNCHANGED netCalls
    /\ UNCHANGED swapReq
    /\ UNCHANGED chatVars

\* fetch or the reading of the response throws
executeSwap_throws ==
    /\ pc = "awaitSwap"
    /\ execResult' = ExecAnswer(FALSE, "preparation_error", MsgPreparationFailed)
    /\ pc' = "execDone"
    /\ UNCHANGED <<parseVars_but_pc, route, tracker, swapSent, txSent, cliVars, predVars>>
    /\ UNCHANGED netCalls
    /\ UNCHANGED swapReq
    /\ UNCHANGED chatVars

tracker_prepared_SkipsWallet ==
    /\ pc = "execDone"
    /\ tracker = "Preparing"
    /\ tracker' = IF execResult.success THEN "Submitted" ELSE "Failed"
    /\ pc' = "tracking"
    /\ UNCHANGED <<parseVars_but_pc, route, execResult, swapSent, txSent, cliVars, predVars>>
    /\ UNCHANGED netCalls
    /\ UNCHANGED swapReq
    /\ UNCHANGED chatVars

\* the backend has answered: the payload waits for the wallet, or the trade has failed
tracker_prepared ==
    /\ pc = "execDone"
    /\ tracker = "Preparing"
    /\ tracker' = IF execResult.success THEN "AwaitingConfirmation" ELSE "Failed"
    /\ pc' = "tracking"
    /\ UNCHANGED <<parseVars_but_pc, route, execResult, swapSent, txSent, cliVars, predVars>>
    /\ UNCHANGED netCalls
    /\ UNCHANGED swapReq
    /\ UNCHANGED chatVars

\* the wallet approves and returns a transaction identifier
tracker_walletApproved ==
    /\ tracker = "AwaitingConfirmation"
    /\ tracker' = "Submitted"
    /\ txSent' = TRUE
    /\ UNCHANGED <<parseVars, route, execResult, swapSent, cliVars,
                   predVars>>
    /\ UNCHANGED netCalls
    /\ UNCHANGED swapReq
    /\ UNCHANGED chatVars

\* the wallet rejects, or its call fails
tracker_walletRejected ==
    /\ tracker = "AwaitingConfirmation"
    /\ tracker' = "Failed"
    /\ UNCHANGED <<parseVars, route, execResult, swapSent, txSent, cliVars, predVars>>
    /\ UNCHANGED netCalls
    /\ UNCHANGED swapReq
    /\ UNCHANGED chatVars

\* the submitted transaction is confirmed
tracker_succeeded ==
    /\ tracker = "Submitted"
    /\ tracker' = "Succeeded"
    /\ UNCHANGED <<parseVars, route, execResult, swapSent, txSent, cliVars, predVars>>
    /\ UNCHANGED netCalls
    /\ UNCHANGED swapReq
    /\ UNCHANGED chatVars

tracker_failed_FromAnyState ==
    /\ tracker \in {"Submitted", "Succeeded"}
    /\ tracker' = "Failed"
    /\ UNCHANGED <<parseVars, route, execResult, swapSent, txSent, cliVars, predVars>>
    /\ UNCHANGED netCalls
    /\ UNCHANGED swapReq
    /\ UNCHANGED chatVars

\* the submitted transaction fails
tracker_failed ==
    /\ tracker = "Submitted"
    /\ tracker' = "Failed"
    /\ UNCHANGED <<parseVars, route, execResult, swapSent, txSent, cliVars, predVars>>
    /\ UNCHANGED netCalls
    /\ UNCHANGED swapReq
    /\ UNCHANGED chatVars

(***************************************************************************)
(* src/ai/intentParser.ts: the parser of the CLI, which always asks the    *)
(* completion service.                                                     *)
(***************************************************************************)
W_ether == <<"e", "t", "h", "e", "r">>
W_tether == <<"t", "e", "t", "h", "e", "r">>
W_uniswap == <<"u", "n", "i", "s", "w", "a", "p">>
W_chainlink == <<"c", "h", "a", "i", "n", "l", "i", "n", "k">>
W_MATIC == <<"M", "A", "T", "I", "C">>
W_usd_coin == <<"u", "s", "d", "-", "c", "o", "i", "n">>
W_matic_network == <<"m", "a", "t", "i", "c", "-", "n", "e", "t", "w", "o", "r", "k">>

TOKEN_ALIASES ==
    (W_ethereum :> W_ETH) @@ (W_ether :> W_ETH) @@ (W_bitcoin :> W_BTC) @@
    (W_usd_coin :> W_USDC) @@ (W_tether :> W_USDT) @@ (W_uniswap :> W_UNI) @@
    (W_chainlink :> W_LINK) @@ (W_polygon :> W_MATIC) @@ (W_matic_network :> W_MATIC)

\* normalizeToken of src/ai/intentParser.ts
cli_normalizeToken(token) ==
    IF toLowerCase(token) \in DOMAIN TOKEN_ALIASES
    THEN TOKEN_ALIASES[toLowerCase(token)]
    ELSE toUpperCase(token)

\* the numbers of Object.values(ChainId), src/types
BSC == 56
GNOSIS == 100
AVALANCHE == 43114
FANTOM == 250
CliChainIds == {ETHEREUM, BASE, POLYGON, ARBITRUM, OPTIMISM, BSC, GNOSIS, AVALANCHE, FANTOM}

DefaultSlippage == 1
DefaultDeadline == 20

\* the draft thrown away by an IntentParsingError
Thrown == Draft("thrown", 0)

\* validateAndNormalizeDraft: the draft it returns, Thrown where it throws
validateAndNormalizeDraft(d) ==
    LET trading == d.mode \in {"swap", "stop", "limit"}
        amountNum == parseFloat(d.amount)
        d1 == IF trading
              THEN [d EXCEPT !.src = cli_normalizeToken(d.src), !.dst = cli_normalizeToken(d.dst)]
              ELSE d
        d2 == IF d1.chain \in CliChainIds THEN d1 ELSE [d1 EXCEPT !.chain = BASE]
        d3 == IF d2.mode = "swap"
              THEN [d2 EXCEPT
                      !.slippage = IF d2.slippage = Undef \/ d2.slippage = 0
                                   THEN DefaultSlippage ELSE d2.slippage,
                      !.deadline = IF d2.deadline = Undef \/ d2.deadline = 0
                                   THEN DefaultDeadline ELSE d2.deadline]
              ELSE d2
    IN IF trading /\ (d.src = <<>> \/ d.dst = <<>> \/ d.amount = <<>>) THEN Thrown
       ELSE IF trading /\ (amountNum = NaN \/ amountNum <= 0) THEN Thrown
       ELSE d3

(***************************************************************************)
(* src/index.ts: the options of the command line, parseChain, and          *)
(* validateDraft of src/core/orderBuilder.ts.                              *)
(***************************************************************************)
W_mainnet == <<"m", "a", "i", "n", "n", "e", "t">>
W_optimism == <<"o", "p", "t", "i", "m", "i", "s", "m">>
W_op == <<"o", "p">>
N_1p0 == <<"1", ".", "0">>
N_60 == <<"6", "0">>
N_20 == <<"2", "0">>

\* chainMap of parseChain
chainMap ==
    (W_ethereum :> ETHEREUM) @@ (W_eth :> ETHEREUM) @@ (W_mainnet :> ETHEREUM) @@
    (W_base :> BASE) @@ (W_polygon :> POLYGON) @@ (W_matic :> POLYGON) @@
    (W_arbitrum :> ARBITRUM) @@ (W_arb :> ARBITRUM) @@
    (W_optimism :> OPTIMISM) @@ (W_op :> OPTIMISM)

parseChain(chainName) ==
    IF toLowerCase(chainName) \in DOMAIN chainMap
    THEN chainMap[toLowerCase(chainName)]
    ELSE BASE

\* parseInt of a text: the value of its leading digits
parseInt(s) ==
    LET d == RunEnd(s, 1, Digit)
    IN IF d = 1 THEN NaN ELSE DigitsValue(SubSeq(s, 1, d - 1))

\* values of --chain (base when the option is not given) and of --slippage (1.0 when
\* it is not given)
ChainOptions == {W_base, W_polygon, W_mars}
SlippageOptions == {N_1p0, N_60}

MaxSlippage == 50

\* validateDraft of src/core/orderBuilder.ts: the errors it collects
cli_validateDraft(d) ==
    (IF d.mode \in {"", "null"} THEN {"Trading mode is required"} ELSE {})
    \cup (IF d.src = <<>> \/ d.dst = <<>>
          THEN {"Source and destination tokens are required"} ELSE {})
    \cup (IF d.amount = <<>> \/ (parseFloat(d.amount) # NaN /\ parseFloat(d.amount) <= 0)
          THEN {"Valid amount is required"} ELSE {})
    \cup (IF d.mode = "stop" /\ (d.price = Undef \/ d.price = 0)
          THEN {"Trigger price is required for stop orders"} ELSE {})
    \cup (IF d.slippage # Undef /\ d.slippage # 0 /\ (d.slippage < 0 \/ d.slippage > MaxSlippage)
          THEN {"Slippage must be between 0 and 50%"} ELSE {})

\* the notices a handler ends with
NoticeInvalidSwap == "Invalid swap parameters"
NoticeDryRunSwap == "DRY RUN MODE - No transactions will be executed"
NoticeNoWallet == "Wallet integration not implemented in this demo"
NoticeInvalidStop == "Invalid stop order parameters"
NoticeDryRunStop == "DRY RUN MODE - No orders will be created"
NoticeStopRequires == "Stop orders require"

\* objects the completion service can return under draftSchema
CliAIObjects ==
    {[Draft("swap", BASE) EXCEPT !.src = W_ethereum, !.dst = W_usdc, !.amount = N_5],
     [Draft("swap", BASE) EXCEPT !.src = W_ETH, !.amount = N_5],
     [Draft("swap", ETHEREUM) EXCEPT !.src = W_ETH, !.dst = W_USDC, !.amount = N_0],
     [Draft("stop", 999) EXCEPT !.src = W_uni, !.dst = W_usdc, !.amount = N_100,
                                !.price = 15 * Million],
     [Draft("swap", POLYGON) EXCEPT !.src = W_usdt, !.dst = W_usdc, !.amount = N_5,
                                    !.slippage = 3],
     Draft("trending", POLYGON),
     Draft("dca", BASE)}

\* parse of src/ai/intentParser.ts up to the await of parseWithAI
cli_parse ==
    /\ pc = "idle"
    /\ \E f \in Forms : \E words \in Phrases(f) :
         /\ command' = Render(words, 1, 0, FALSE)
         /\ phrase' = words
         /\ form' = f
    /\ userAddress' = FALSE
    /\ draft' = NullDraft
    /\ stage' = "none"
    /\ IF anthropicKey
       THEN /\ pc' = "cliAwaitAI"
            /\ aiCalls' = 1
            /\ threw' = "none"
       ELSE /\ pc' = "cliDone"
            /\ aiCalls' = 0
            /\ threw' = "IntentParsingError"
    /\ UNCHANGED <<anthropicKey, apiKey, validated, quoteReq, validation>>
    /\ UNCHANGED <<execVars, predVars>>
    /\ netCalls' = IF pc' = "cliAwaitAI" THEN 1 ELSE 0
    /\ UNCHANGED swapReq
    /\ UNCHANGED chatVars

\* generateObject resolves: parseWithAI returns validateAndNormalizeDraft(object) or throws
cli_aiResolved ==
    /\ pc = "cliAwaitAI"
    /\ \E object \in CliAIObjects :
         LET d == validateAndNormalizeDraft(object)
         IN IF d = Thrown
            THEN /\ draft' = NullDraft
                 /\ threw' = "IntentParsingError"
                 /\ stage' = "none"
            ELSE /\ draft' = d
                 /\ threw' = "none"
                 /\ stage' = "ai"
    /\ pc' = "cliDone"
    /\ UNCHANGED <<command, phrase, form, aiCalls, userAddress, anthropicKey, apiKey,
                   validated, quoteReq, validation>>
    /\ UNCHANGED <<execVars, predVars>>
    /\ UNCHANGED netCalls
    /\ UNCHANGED swapReq
    /\ UNCHANGED chatVars

\* generateObject rejects: the catch block of parseWithAI throws IntentParsingError
cli_aiRejected ==
    /\ pc = "cliAwaitAI"
    /\ threw' = "IntentParsingError"
    /\ pc' = "cliDone"
    /\ UNCHANGED <<command, phrase, form, stage, draft, aiCalls, userAddress, anthropicKey,
                   apiKey, validated, quoteReq, validation>>
    /\ UNCHANGED <<execVars, predVars>>
    /\ UNCHANGED netCalls
    /\ UNCHANGED swapReq
    /\ UNCHANGED chatVars

\* handleIntelligentCommand ends without a trading handler: parse threw, or the mode is
\* neither swap nor stop
cli_done ==
    /\ pc = "cliDone"
    /\ threw # "none" \/ draft.mode \notin {"swap", "stop"}
    /\ pc' = "idle"
    /\ command' = <<>>
    /\ phrase' = <<>>
    /\ form' = "none"
    /\ stage' = "none"
    /\ draft' = NullDraft
    /\ threw' = "none"
    /\ aiCalls' = 0
    /\ UNCHANGED <<userAddress, anthropicKey, apiKey, validated, quoteReq, validation>>
    /\ UNCHANGED <<execVars, predVars>>
    /\ netCalls' = 0
    /\ UNCHANGED swapReq
    /\ UNCHANGED chatVars

\* handleSwapIntent: the options overwrite chain, slippage and deadline of the draft,
\* validateDraft judges it, and the handler ends with a notice
handleSwapIntent ==
    /\ pc = "cliDone"
    /\ threw = "none"
    /\ draft.mode = "swap"
    /\ \E chainOpt \in ChainOptions : \E slippageOpt \in SlippageOptions : \E dry \in BOOLEAN :
         LET d == [draft EXCEPT !.chain = parseChain(chainOpt),
                                !.slippage = parseFloat(slippageOpt) \div Million,
                                !.deadline = parseInt(N_20)]
         IN /\ returned' = draft
            /\ draft' = d
            /\ dryRun' = dry
            /\ printed' = IF cli_validateDraft(d) # {} THEN NoticeInvalidSwap
                          ELSE IF dry THEN NoticeDryRunSwap
                          ELSE NoticeNoWallet
    /\ pc' = "cliHandled"
    /\ UNCHANGED <<command, phrase, form, stage, threw, aiCalls, userAddress, anthropicKey,
                   apiKey, validated, quoteReq, validation>>
    /\ UNCHANGED <<route, tracker, execResult, swapSent, txSent, cliResult, predVars>>
    /\ UNCHANGED netCalls
    /\ UNCHANGED swapReq
    /\ UNCHANGED chatVars

\* handleStopIntent: the chain option overwrites the chain of the draft
handleStopIntent ==
    /\ pc = "cliDone"
    /\ threw = "none"
    /\ draft.mode = "stop"
    /\ \E chainOpt \in ChainOptions : \E dry \in BOOLEAN :
         LET d == [draft EXCEPT !.chain = parseChain(chainOpt)]
         IN /\ returned' = draft
            /\ draft' = d
            /\ dryRun' = dry
            /\ printed' = IF cli_validateDraft(d) # {} THEN NoticeInvalidStop
                          ELSE IF dry THEN NoticeDryRunStop
                          ELSE NoticeStopRequires
    /\ pc' = "cliHandled"
    /\ UNCHANGED <<command, phrase, form, stage, threw, aiCalls, userAddress, anthropicKey,
                   apiKey, validated, quoteReq, validation>>
    /\ UNCHANGED <<route, tracker, execResult, swapSent, txSent, cliResult, predVars>>
    /\ UNCHANGED netCalls
    /\ UNCHANGED swapReq
    /\ UNCHANGED chatVars


(***************************************************************************)
(* The library of the CLI: the parser that tries patterns before the       *)
(* completion service (src/ai/intentParser.ts, earlier version), the order *)
(* builder and executeIntent (src/core/orderBuilder.ts), and the predicate *)
(* builder.  executeIntent has no caller in the handlers above; it is      *)
(* driven here with every Draft that parser returns.                       *)
(***************************************************************************)
W_bsc == <<"b", "s", "c">>
W_binance == <<"b", "i", "n", "a", "n", "c", "e">>
W_slippage == <<"s", "l", "i", "p", "p", "a", "g", "e">>
W_slip == <<"s", "l", "i", "p">>
W_high == <<"h", "i", "g", "h">>
W_DEGEN == <<"D", "E", "G", "E", "N">>
W_BRETT == <<"B", "R", "E", "T", "T">>
W_WMATIC == <<"W", "M", "A", "T", "I", "C">>
W_BNB == <<"B", "N", "B">>
W_WBNB == <<"W", "B", "N", "B">>
W_xDAI == <<"x", "D", "A", "I">>
W_WXDAI == <<"W", "X", "D", "A", "I">>
W_AVAX == <<"A", "V", "A", "X">>
W_WAVAX == <<"W", "A", "V", "A", "X">>
W_FTM == <<"F", "T", "M">>
W_WFTM == <<"W", "F", "T", "M">>

\* String.prototype.trim
RECURSIVE trimStart(_)
trimStart(s) == IF s # <<>> /\ Head(s) = " " THEN trimStart(Tail(s)) ELSE s
RECURSIVE trimEnd(_)
trimEnd(s) == IF s # <<>> /\ s[Len(s)] = " " THEN trimEnd(SubSeq(s, 1, Len(s) - 1)) ELSE s
trim(s) == trimEnd(trimStart(s))

\* config.defaultChain of the CLI
defaultChain == BASE

CHAIN_ALIASES ==
    (W_mainnet :> ETHEREUM) @@ (W_ethereum :> ETHEREUM) @@ (W_eth :> ETHEREUM) @@
    (W_base :> BASE) @@ (W_polygon :> POLYGON) @@ (W_matic :> POLYGON) @@
    (W_arbitrum :> ARBITRUM) @@ (W_arb :> ARBITRUM) @@
    (W_optimism :> OPTIMISM) @@ (W_op :> OPTIMISM) @@
    (W_bsc :> BSC) @@ (W_binance :> BSC)

normalizeChain(chain) ==
    IF toLowerCase(chain) \in DOMAIN CHAIN_ALIASES
    THEN CHAIN_ALIASES[toLowerCase(chain)]
    ELSE ETHEREUM

\* /swap\s+(\d+(?:\.\d+)?)\s+(\w+)\s+to\s+(\w+)(?:\s+on\s+(\w+))?/
\* (the patterns of parseWithRegex carry no i flag; they are given lower-case text)
regexSwapPattern ==
    <<Lit(W_swap), Plus(Space), Open(1)>> \o Number \o
    <<Close(1), Plus(Space), Open(2), Plus(WordChar), Close(2), Plus(Space), Lit(W_to),
      Plus(Space), Open(3), Plus(WordChar), Close(3),
      Opt(<<Plus(Space), Lit(W_on), Plus(Space), Open(4), Plus(WordChar), Close(4)>>)>>

\* /sell\s+(\d+(?:\.\d+)?)\s+(\w+)\s+if\s+price\s*(>=|<=|>|<)\s*(\d+(?:\.\d+)?)/
regexSellPattern ==
    <<Lit(W_sell), Plus(Space), Open(1)>> \o Number \o
    <<Close(1), Plus(Space), Open(2), Plus(WordChar), Close(2), Plus(Space), Lit(W_if),
      Plus(Space), Lit(W_price), Opt(<<Plus(Space)>>),
      Open(3), Alt(<< <<Lit(C_ge)>>, <<Lit(C_le)>>, <<Lit(C_gt)>>, <<Lit(C_lt)>> >>), Close(3),
      Opt(<<Plus(Space)>>), Open(4)>> \o Number \o <<Close(4)>>

\* /buy\s+(\d+(?:\.\d+)?)\s+(\w+)\s+if\s+price\s*(<=|>=|<|>)\s*(\d+(?:\.\d+)?)/
regexBuyPattern ==
    <<Lit(W_buy), Plus(Space), Open(1)>> \o Number \o
    <<Close(1), Plus(Space), Open(2), Plus(WordChar), Close(2), Plus(Space), Lit(W_if),
      Plus(Space), Lit(W_price), Opt(<<Plus(Space)>>),
      Open(3), Alt(<< <<Lit(C_le)>>, <<Lit(C_ge)>>, <<Lit(C_lt)>>, <<Lit(C_gt)>> >>), Close(3),
      Opt(<<Plus(Space)>>), Open(4)>> \o Number \o <<Close(4)>>

\* /(?:slippage|slip)\s*[=:]?\s*(\d+(?:\.\d+)?)\s*%?/i
slippagePattern ==
    <<Alt(<< <<Lit(W_slippage)>>, <<Lit(W_slip)>> >>), Opt(<<Plus(Space)>>),
      Opt(<<Alt(<< <<Lit(<<"=">>)>>, <<Lit(<<":">>)>> >>)>>), Opt(<<Plus(Space)>>), Open(1)>> \o Number \o <<Close(1)>>

\* extractSlippage, in whole percents.  The terms 'low slippage' (0.5) and 'medium
\* slippage' (1.5) are not whole percents; no text of the model names them.
extractSlippage(text) ==
    LET slippageMatch == match(text, slippagePattern)
    IN IF slippageMatch.ok THEN parseFloat(slippageMatch.g1) \div Million
       ELSE IF includes(text, W_high \o <<" ">> \o W_slippage) THEN 3
       ELSE Undef

\* parseWithRegex: the Draft of the first pattern that matches, NullDraft for null.
\* The comparator a stop command names (group 3) is read and not kept.
parseWithRegex(text) ==
    LET swapMatch == match(text, regexSwapPattern)
        stopMatch == match(text, regexSellPattern)
        buyStopMatch == match(text, regexBuyPattern)
    IN IF swapMatch.ok
       THEN [Draft("swap", IF swapMatch.g4 # <<>> THEN normalizeChain(swapMatch.g4)
                           ELSE ETHEREUM)
                EXCEPT !.src = cli_normalizeToken(swapMatch.g2),
                       !.dst = cli_normalizeToken(swapMatch.g3),
                       !.amount = swapMatch.g1,
                       !.slippage = extractSlippage(text)]
       ELSE IF stopMatch.ok
       THEN [Draft("stop", ETHEREUM)
                EXCEPT !.src = cli_normalizeToken(stopMatch.g2), !.dst = W_USDC,
                       !.amount = stopMatch.g1, !.price = parseFloat(stopMatch.g4)]
       ELSE IF buyStopMatch.ok
       THEN [Draft("stop", ETHEREUM)
                EXCEPT !.src = W_USDC, !.dst = cli_normalizeToken(buyStopMatch.g2),
                       !.amount = buyStopMatch.g1, !.price = parseFloat(buyStopMatch.g4)]
       ELSE NullDraft

\* COMMON_TOKENS of src/types: the symbols that have an address on a chain
TokensOnChain ==
    (ETHEREUM :> {W_ETH, W_WETH, W_USDC, W_USDT, W_UNI, W_LINK}) @@
    (BASE :> {W_ETH, W_WETH, W_USDC, W_USDT, W_DEGEN, W_BRETT}) @@
    (POLYGON :> {W_MATIC, W_WMATIC, W_USDC, W_USDT}) @@
    (ARBITRUM :> {W_ETH, W_WETH, W_USDC, W_USDT}) @@
    (OPTIMISM :> {W_ETH, W_WETH, W_USDC, W_USDT}) @@
    (BSC :> {W_BNB, W_WBNB, W_USDC, W_USDT}) @@
    (GNOSIS :> {W_xDAI, W_WXDAI, W_USDC}) @@
    (AVALANCHE :> {W_AVAX, W_WAVAX, W_USDC, W_USDT}) @@
    (FANTOM :> {W_FTM, W_WFTM, W_USDC, W_USDT})

\* getTokenAddress returns an address (it throws otherwise)
hasTokenAddress(symbol, chainId) ==
    /\ chainId \in DOMAIN TokensOnChain
    /\ toUpperCase(symbol) \in TokensOnChain[chainId]

\* getPriceFeedAddress returns an address (it throws otherwise)
hasPriceFeed_AnyNetwork(tokenSymbol, chainId) == toUpperCase(tokenSymbol) \in DOMAIN PRICE_FEEDS

hasPriceFeed(tokenSymbol, chainId) ==
    /\ toUpperCase(tokenSymbol) \in DOMAIN PRICE_FEEDS
    /\ chainId = ETHEREUM

getPriceFeedAddress(tokenSymbol) == PRICE_FEEDS[toUpperCase(tokenSymbol)]

\* draft.chain || ChainId.BASE
orderChain(d) == IF d.chain = 0 THEN BASE ELSE d.chain

\* the part of buildFusionSwap and of buildLimitOrder before the quote is asked for
\* goes through: both tokens have an address and formatAmount reads a number
orderParamsBuilt(d) ==
    /\ hasTokenAddress(d.src, orderChain(d))
    /\ hasTokenAddress(d.dst, orderChain(d))
    /\ parseFloat(d.amount) # NaN

\* buildStopOrder: a sale of anything but USDC and USDT is taken for a stop-loss
isStopLoss(d) == d.src # W_USDC /\ d.src # W_USDT

\* the token whose feed the predicate of buildStopOrder reads
stopFeedToken(d) == IF isStopLoss(d) THEN d.src ELSE d.dst

\* createStopLossPredicate is buildLtPrice, createTakeProfitPredicate is buildGtPrice
stopPredicate(d) ==
    IF isStopLoss(d) THEN buildLtPrice(getPriceFeedAddress(d.src), d.price)
    ELSE buildGtPrice(getPriceFeedAddress(d.dst), d.price)

\* buildStopOrder gets as far as its predicate
stopPredicateBuilt(d) ==
    /\ d.mode = "stop"
    /\ d.price # Undef /\ d.price # 0
    /\ hasPriceFeed(stopFeedToken(d), orderChain(d))

CliAnswer(success, message) == [returned |-> TRUE, success |-> success, message |-> message]
MsgDryRunSwap == "Dry run: Would swap"
MsgSwapExecuted == "Swap executed"
MsgDryRunStop == "Dry run: Would create stop order"
MsgStopNeedsSigning == "Stop orders require wallet signing (not implemented in this demo)"
MsgExecutionFailed == "Execution failed"
MsgPriceFeedNotFound == "Execution failed: Error: Price feed not found"

\* the answer of the catch block of executeIntent to what buildFusionSwap or
\* buildStopOrder threw before any request
executeIntent_caught(d) ==
    IF /\ d.mode = "stop" /\ d.price # Undef /\ d.price # 0
       /\ ~hasPriceFeed(stopFeedToken(d), orderChain(d))
    THEN CliAnswer(FALSE, MsgPriceFeedNotFound)
    ELSE CliAnswer(FALSE, MsgExecutionFailed)

\* a text given to the library parser: a phrase, with or without words on slippage
SlippageWords == {<<>>, <<W_slippage, N_5>>, <<W_high, W_slippage>>}

\* the predicates asked of the builder
Price(type, symbol, targetPrice) ==
    [type |-> type, feed |-> PRICE_FEEDS[symbol], value |-> targetPrice, kids |-> <<>>]
TimeAfter(timestamp) ==
    [type |-> "TimeAfter", feed |-> <<>>, value |-> timestamp, kids |-> <<>>]
Composite(type, left, right) ==
    [type |-> type, feed |-> <<>>, value |-> 0, kids |-> <<left, right>>]

PricePredicates ==
    {Price(t, s, v) : t \in {"PriceAbove", "PriceBelow", "PriceEquals"}, s \in {W_ETH, W_UNI},
                      v \in {12 * Million, parseFloat(N_15p50)}}
TimePredicates == {TimeAfter(1700000000), TimeAfter(1800000000)}
CompositePredicates ==
    {Composite(t, l, r) : t \in {"And", "Or"},
                          l \in {Price("PriceAbove", W_ETH, 12 * Million), TimeAfter(1700000000)},
                          r \in {Price("PriceBelow", W_UNI, parseFloat(N_15p50)),
                                 TimeAfter(1800000000)}}
Predicates == PricePredicates \cup TimePredicates \cup CompositePredicates

\* the builder of each kind of predicate, applied to the parts of p
RECURSIVE buildLogical(_)
buildLogical(p) ==
    CASE p.type = "PriceAbove" -> buildGtPrice(p.feed, p.value)
      [] p.type = "PriceBelow" -> buildLtPrice(p.feed, p.value)
      [] p.type = "PriceEquals" -> buildEqPrice(p.feed, p.value)
      [] p.type = "TimeAfter" -> buildTimestampAfter(p.value)
      [] p.type = "And" -> buildAndPredicate(buildLogical(p.kids[1]), buildLogical(p.kids[2]))
      [] p.type = "Or" -> buildOrPredicate(buildLogical(p.kids[1]), buildLogical(p.kids[2]))

\* byte strings no builder returns: an encoding cut short, an encoding with a byte
\* appended, and well-formed words under a selector that names no predicate
ForeignBytes ==
    LET gt == buildGtPrice(PRICE_FEEDS[W_ETH], 12 * Million)
        ts == buildTimestampAfter(1700000000)
    IN {SubSeq(gt, 1, Len(gt) - 1), gt \o <<0>>, gt \o <<255>>,
        SubSeq(ts, 1, Len(ts) - 1), ts \o <<7>>, SubSeq(ts, 1, 4), <<>>,
        bytes4Word(<<222, 173, 190, 239>>) \o SubSeq(gt, WordSize + 1, Len(gt)),
        bytes4Word(<<222, 173, 190, 239>>) \o SubSeq(ts, WordSize + 1, Len(ts))}

LibInit ==
    /\ pc = "lib"
    /\ command = <<>>
    /\ phrase = <<>>
    /\ form = "none"
    /\ stage = "none"
    /\ draft = NullDraft
    /\ threw = "none"
    /\ aiCalls = 0
    /\ userAddress = FALSE
    /\ anthropicKey \in BOOLEAN
    /\ apiKey = TRUE
    /\ validated = NullDraft
    /\ quoteReq = NoRequest
    /\ validation = NoResult
    /\ execIdle
    /\ predIdle
    /\ chatIdle

libUntouched == <<userAddress, anthropicKey, apiKey, validated, quoteReq, validation, route,
                  tracker, execResult, returned, printed>>

\* parse (patterns first): parseWithRegex on the lower-cased, trimmed text; its Draft is
\* returned at once, and only null leads to parseWithAI, which throws without a key
regex_parse ==
    /\ pc = "lib"
    /\ \E f \in Forms : \E words \in Phrases(f) : \E more \in SlippageWords :
       \E upper \in BOOLEAN :
         LET text == Render(words \o more, 1, 0, upper)
             regexResult == parseWithRegex(trim(toLowerCase(text)))
         IN /\ command' = text
            /\ phrase' = words
            /\ form' = f
            /\ IF regexResult # NullDraft
               THEN /\ draft' = regexResult
                    /\ stage' = "pattern"
                    /\ threw' = "none"
                    /\ aiCalls' = 0
                    /\ pc' = "libParsed"
               ELSE /\ draft' = NullDraft
                    /\ stage' = "none"
                    /\ IF anthropicKey
                       THEN /\ pc' = "libAwaitAI"
                            /\ aiCalls' = 1
                            /\ threw' = "none"
                       ELSE /\ pc' = "libThrew"
                            /\ aiCalls' = 0
                            /\ threw' = "IntentParsingError"
    /\ UNCHANGED <<libUntouched, swapSent, txSent, dryRun, cliResult, predVars>>
    /\ netCalls' = IF pc' = "libAwaitAI" THEN 1 ELSE 0
    /\ UNCHANGED swapReq
    /\ UNCHANGED chatVars

\* anthropic.messages.create resolves: validateAndNormalizeDraft of the parsed JSON
regex_aiResolved ==
    /\ pc = "libAwaitAI"
    /\ \E object \in CliAIObjects :
         LET d == validateAndNormalizeDraft(object)
         IN IF d = Thrown
            THEN /\ draft' = NullDraft
                 /\ threw' = "IntentParsingError"
                 /\ stage' = "none"
                 /\ pc' = "libThrew"
            ELSE /\ draft' = d
                 /\ threw' = "none"
                 /\ stage' = "ai"
                 /\ pc' = "libParsed"
    /\ UNCHANGED <<command, phrase, form, aiCalls>>
    /\ UNCHANGED <<libUntouched, swapSent, txSent, dryRun, cliResult, predVars>>
    /\ UNCHANGED netCalls
    /\ UNCHANGED swapReq
    /\ UNCHANGED chatVars

\* anthropic.messages.create rejects: parseWithAI throws IntentParsingError
regex_aiRejected ==
    /\ pc = "libAwaitAI"
    /\ threw' = "IntentParsingError"
    /\ pc' = "libThrew"
    /\ UNCHANGED <<command, phrase, form, stage, draft, aiCalls>>
    /\ UNCHANGED <<libUntouched, swapSent, txSent, dryRun, cliResult, predVars>>
    /\ UNCHANGED netCalls
    /\ UNCHANGED swapReq
    /\ UNCHANGED chatVars

\* executeIntent up to its first request: buildFusionSwap or buildStopOrder up to
\* getQuote, or the catch block when one of them throws before it
executeIntent ==
    /\ pc = "libParsed"
    /\ dryRun' \in BOOLEAN
    /\ predicate' = IF stopPredicateBuilt(draft) THEN stopPredicate(draft) ELSE predicate
    /\ IF \/ draft.mode = "swap" /\ orderParamsBuilt(draft)
          \/ stopPredicateBuilt(draft) /\ orderParamsBuilt(draft)
       THEN /\ pc' = "libAwaitQuote"
            /\ cliResult' = cliResult
       ELSE /\ pc' = "libDone"
            /\ cliResult' = executeIntent_caught(draft)
    /\ UNCHANGED <<command, phrase, form, stage, draft, threw, aiCalls>>
    /\ UNCHANGED <<libUntouched, swapSent, txSent, logical, decoded>>
    /\ netCalls' = IF pc' = "libAwaitQuote" THEN 1 ELSE 0
    /\ UNCHANGED swapReq
    /\ UNCHANGED chatVars

\* getQuote resolves: buildFusionSwap asks getSwap for the transaction; buildStopOrder
\* returns, and executeIntent answers for the stop order
getQuote_ok ==
    /\ pc = "libAwaitQuote"
    /\ IF draft.mode = "swap"
       THEN /\ swapSent' = TRUE
            /\ pc' = "libAwaitSwap"
            /\ cliResult' = cliResult
       ELSE /\ swapSent' = swapSent
            /\ pc' = "libDone"
            /\ cliResult' = IF dryRun THEN CliAnswer(TRUE, MsgDryRunStop)
                            ELSE CliAnswer(FALSE, MsgStopNeedsSigning)
    /\ UNCHANGED <<command, phrase, form, stage, draft, threw, aiCalls>>
    /\ UNCHANGED <<libUntouched, txSent, dryRun, predVars>>
    /\ netCalls' = IF pc' = "libAwaitSwap" THEN netCalls + 1 ELSE netCalls
    /\ UNCHANGED swapReq
    /\ UNCHANGED chatVars

\* getQuote throws OrderExecutionError, which the catch block of executeIntent reports
getQuote_fails ==
    /\ pc = "libAwaitQuote"
    /\ pc' = "libDone"
    /\ cliResult' = CliAnswer(FALSE, MsgExecutionFailed)
    /\ UNCHANGED <<command, phrase, form, stage, draft, threw, aiCalls>>
    /\ UNCHANGED <<libUntouched, swapSent, txSent, dryRun, predVars>>
    /\ UNCHANGED netCalls
    /\ UNCHANGED swapReq
    /\ UNCHANGED chatVars

getSwap_ok_AlwaysSends ==
    /\ pc = "libAwaitSwap"
    /\ cliResult' = cliResult
    /\ txSent' = TRUE
    /\ pc' = "libAwaitSend"
    /\ UNCHANGED <<command, phrase, form, stage, draft, threw, aiCalls>>
    /\ UNCHANGED <<libUntouched, swapSent, dryRun, predVars>>
    /\ UNCHANGED netCalls
    /\ UNCHANGED swapReq
    /\ UNCHANGED chatVars

\* getSwap resolves: a dry run returns here; otherwise wallet.sendTransaction is called
getSwap_ok ==
    /\ pc = "libAwaitSwap"
    /\ IF dryRun
       THEN /\ cliResult' = CliAnswer(TRUE, MsgDryRunSwap)
            /\ txSent' = txSent
            /\ pc' = "libDone"
       ELSE /\ cliResult' = cliResult
            /\ txSent' = TRUE
            /\ pc' = "libAwaitSend"
    /\ UNCHANGED <<command, phrase, form, stage, draft, threw, aiCalls>>
    /\ UNCHANGED <<libUntouched, swapSent, dryRun, predVars>>
    /\ UNCHANGED netCalls
    /\ UNCHANGED swapReq
    /\ UNCHANGED chatVars

getSwap_fails ==
    /\ pc = "libAwaitSwap"
    /\ pc' = "libDone"
    /\ cliResult' = CliAnswer(FALSE, MsgExecutionFailed)
    /\ UNCHANGED <<command, phrase, form, stage, draft, threw, aiCalls>>
    /\ UNCHANGED <<libUntouched, swapSent, txSent, dryRun, predVars>>
    /\ UNCHANGED netCalls
    /\ UNCHANGED swapReq
    /\ UNCHANGED chatVars

\* wallet.sendTransaction resolves with the transaction
sendTransaction_ok ==
    /\ pc = "libAwaitSend"
    /\ pc' = "libDone"
    /\ cliResult' = CliAnswer(TRUE, MsgSwapExecuted)
    /\ UNCHANGED <<command, phrase, form, stage, draft, threw, aiCalls>>
    /\ UNCHANGED <<libUntouched, swapSent, txSent, dryRun, predVars>>
    /\ UNCHANGED netCalls
    /\ UNCHANGED swapReq
    /\ UNCHANGED chatVars

\* wallet.sendTransaction rejects
sendTransaction_fails ==
    /\ pc = "libAwaitSend"
    /\ pc' = "libDone"
    /\ cliResult' = CliAnswer(FALSE, MsgExecutionFailed)
    /\ UNCHANGED <<command, phrase, form, stage, draft, threw, aiCalls>>
    /\ UNCHANGED <<libUntouched, swapSent, txSent, dryRun, predVars>>
    /\ UNCHANGED netCalls
    /\ UNCHANGED swapReq
    /\ UNCHANGED chatVars

\* a builder of the predicate builder is called
predicate_build ==
    /\ pc = "lib"
    /\ \E p \in Predicates :
         /\ logical' = p
         /\ predicate' = buildLogical(p)
    /\ pc' = "built"
    /\ UNCHANGED <<parseVars_but_pc, execVars, decoded>>
    /\ UNCHANGED netCalls
    /\ UNCHANGED swapReq
    /\ UNCHANGED chatVars

\* bytes that come from elsewhere are at hand
predicate_receive ==
    /\ pc = "lib"
    /\ \E x \in ForeignBytes : predicate' = x
    /\ pc' = "built"
    /\ UNCHANGED <<parseVars_but_pc, execVars, logical, decoded>>
    /\ UNCHANGED netCalls
    /\ UNCHANGED swapReq
    /\ UNCHANGED chatVars

\* decodePredicate is called on the bytes
predicate_decode ==
    /\ pc = "built"
    /\ decoded' = decodePredicate(predicate)
    /\ pc' = "decoded"
    /\ UNCHANGED <<parseVars_but_pc, execVars, logical, predicate>>
    /\ UNCHANGED netCalls
    /\ UNCHANGED swapReq
    /\ UNCHANGED chatVars

LibNext ==
    \/ regex_parse
    \/ regex_aiResolved
    \/ regex_aiRejected
    \/ executeIntent
    \/ getQuote_ok
    \/ getQuote_fails
    \/ getSwap_ok
    \/ getSwap_fails
    \/ sendTransaction_ok
    \/ sendTransaction_fails
    \/ predicate_build
    \/ predicate_receive
    \/ predicate_decode


Next ==
    \/ parse
    \/ parse_aiResolved
    \/ parse_aiRejected
    \/ POST_switch
    \/ validateDraft
    \/ validateDraft_quoteOk
    \/ validateDraft_quoteHttpError
    \/ validateDraft_quoteThrows
    \/ POST_respond
    \/ tracker_confirm
    \/ POST_execute
    \/ POST_execute_switch
    \/ executeSwap_ok
    \/ executeSwap_httpError
    \/ executeSwap_throws
    \/ tracker_prepared
    \/ tracker_walletApproved
    \/ tracker_walletRejected
    \/ tracker_succeeded
    \/ tracker_failed
    \/ cli_parse
    \/ cli_aiResolved
    \/ cli_aiRejected
    \/ cli_done
    \/ handleSwapIntent
    \/ handleStopIntent

Spec == Init /\ [][Next]_vars
LibSpec == LibInit /\ [][LibNext]_vars

(***************************************************************************)
(* frontend/components/TradingInterface.tsx: the chat.  A handler sees the *)
(* state of the latest render; the outcome of the request to the route is  *)
(* the environment's choice.                                               *)
(***************************************************************************)
MaxMessages == 7

\* texts of the input field: empty, blank, a command, a command after a blank
InputTexts == {<<>>, <<" ">>, W_trending, <<" ">> \o W_hello}

\* contents of the message built from an answer: result.response, or the default text
AnswerContents == {<<"response">>, <<"default">>}

\* the input field changes, by typing or by a click on an example command
setInput ==
    /\ pc = "chat"
    /\ \E text \in InputTexts : input' = text
    /\ UNCHANGED <<isLoading, messages, inFlight, sendOutcome>>
    /\ UNCHANGED <<parseVars, execVars, predVars, netCalls, swapReq>>

handleSendMessage_IgnoresLoading ==
    /\ pc = "chat"
    /\ IF trim(input) = <<>>
       THEN /\ sendOutcome' = "empty"
            /\ UNCHANGED <<input, isLoading, messages, inFlight>>
       ELSE /\ Len(messages) < MaxMessages
            /\ messages' = Append(messages, Message("user", input))
            /\ input' = <<>>
            /\ isLoading' = TRUE
            /\ inFlight' = inFlight + 1
            /\ sendOutcome' = "sent"
    /\ UNCHANGED <<parseVars, execVars, predVars, netCalls, swapReq>>

\* handleSendMessage up to its fetch
handleSendMessage ==
    /\ pc = "chat"
    /\ IF trim(input) = <<>> \/ isLoading
       THEN /\ sendOutcome' = IF trim(input) = <<>> THEN "empty" ELSE "loading"
            /\ UNCHANGED <<input, isLoading, messages, inFlight>>
       ELSE /\ Len(messages) < MaxMessages
            /\ messages' = Append(messages, Message("user", input))
            /\ input' = <<>>
            /\ isLoading' = TRUE
            /\ inFlight' = inFlight + 1
            /\ sendOutcome' = "sent"
    /\ UNCHANGED <<parseVars, execVars, predVars, netCalls, swapReq>>

\* the route answers and the answer reads as an object: the try block ends
handleSendMessage_resolved ==
    /\ pc = "chat"
    /\ inFlight > 0
    /\ \E content \in AnswerContents :
         messages' = Append(messages, Message("assistant", content))
    /\ isLoading' = FALSE
    /\ inFlight' = inFlight - 1
    /\ UNCHANGED <<input, sendOutcome>>
    /\ UNCHANGED <<parseVars, execVars, predVars, netCalls, swapReq>>

\* fetch rejects, or the body does not read as an object: the catch block
handleSendMessage_rejected ==
    /\ pc = "chat"
    /\ inFlight > 0
    /\ messages' = Append(messages, Message("assistant", <<"sorry">>))
    /\ isLoading' = FALSE
    /\ inFlight' = inFlight - 1
    /\ UNCHANGED <<input, sendOutcome>>
    /\ UNCHANGED <<parseVars, execVars, predVars, netCalls, swapReq>>

ChatInit ==
    /\ pc = "chat"
    /\ command = <<>>
    /\ phrase = <<>>
    /\ form = "none"
    /\ stage = "none"
    /\ draft = NullDraft
    /\ threw = "none"
    /\ aiCalls = 0
    /\ userAddress = FALSE
    /\ anthropicKey = TRUE
    /\ apiKey = TRUE
    /\ validated = NullDraft
    /\ quoteReq = NoRequest
    /\ validation = NoResult
    /\ execIdle
    /\ predIdle
    /\ chatIdle

ChatNext ==
    \/ setInput
    \/ handleSendMessage
    \/ handleSendMessage_resolved
    \/ handleSendMessage_rejected

ChatSpec == ChatInit /\ [][ChatNext]_vars

(***************************************************************************)
(* The steps the web application takes by itself: a continuation that is   *)
(* ready to run is run by the event loop.  The requests and confirmations  *)
(* of the user and the answers of the outside services are not among them: *)
(* a user may walk away, a service may stay silent.                        *)
(***************************************************************************)
OwnSteps ==
    \/ POST_switch
    \/ validateDraft
    \/ POST_respond
    \/ POST_execute_switch

FairSpec == Init /\ [][Next]_vars /\ WF_vars(OwnSteps)

(***************************************************************************)
(* Properties.  The tables below state what a text means independently of  *)
(* the parser: the canonical symbol of a written token, the chain a        *)
(* written chain name names, the value of a written number in millionths.  *)
(***************************************************************************)
CanonicalSymbol(w) ==
    CASE w = W_eth -> W_ETH
      [] w = W_ethereum -> W_ETH
      [] w = W_usdc -> W_USDC
      [] w = W_dai -> W_DAI
      [] w = W_pepe -> W_PEPE
      [] w = W_uni -> W_UNI

NamedChain(w) ==
    CASE w = W_base -> 8453
      [] w = W_polygon -> 137
      [] OTHER -> 0

WrittenValue(n) ==
    CASE n = N_0 -> 0
      [] n = N_1 -> 1000000
      [] n = N_5 -> 5000000
      [] n = N_2p5 -> 2500000
      [] n = N_100 -> 100000000
      [] n = N_15 -> 15000000
      [] n = N_0p25 -> 250000
      [] n = N_15p50 -> 15500000

\* a parse has returned to its caller or thrown
ParseEnded == pc \in {"parsed", "cliDone"}

\* the words of a text "[swap] N A to|for B [on CHAIN]"
SwapOffset == IF phrase[1] = W_swap THEN 1 ELSE 0
SwapN == phrase[SwapOffset + 1]
SwapA == phrase[SwapOffset + 2]
SwapB == phrase[SwapOffset + 4]
SwapHasChain == Len(phrase) > SwapOffset + 4
SwapChain == phrase[SwapOffset + 6]

\* C1: whenever a parse ends, whatever the completion service did and whether or
\* not it is configured, it has returned a Draft and has not thrown.
C1_ParseAlwaysReturnsDraft ==
    ParseEnded => (threw = "none" /\ draft # NullDraft)

\* C2: a Draft returned with mode swap has a source token, a destination token
\* and an amount, and so has every swap Draft handed to validateDraft.
C2_SwapDraftComplete ==
    /\ (pc = "parsed" /\ draft.mode = "swap")
          => (draft.src # <<>> /\ draft.dst # <<>> /\ draft.amount # <<>>)
    /\ (validated.mode = "swap") => (validated.src # <<>> /\ validated.dst # <<>>)

\* C3: a Draft returned with mode stop carries an action, a comparator, a
\* trigger price and its token.
C3_StopDraftComplete ==
    (pc = "parsed" /\ draft.mode = "stop")
       => /\ draft.action \in {W_buy, W_sell}
          /\ draft.condition \in Range(Comparators)
          /\ draft.price # Undef
          /\ draft.token # <<>>

\* C4: a text "swap N A to B [on CHAIN]" parses to a swap of amount N from the
\* canonical symbol of A to that of B, the amount being the input amount (reverse
\* is not set), on the chain CHAIN names.
C4_SwapTemplate ==
    (pc = "parsed" /\ form = "swap")
       => /\ draft.mode = "swap"
          /\ draft.src = CanonicalSymbol(SwapA)
          /\ draft.dst = CanonicalSymbol(SwapB)
          /\ draft.amount = SwapN
          /\ draft.reverse # "true"
          /\ (SwapHasChain /\ NamedChain(SwapChain) # 0) => draft.chain = NamedChain(SwapChain)

C4_Witness ==
    /\ pc = "parsed"
    /\ form = "swap"
    /\ phrase = <<W_swap, N_1, W_eth, W_to, W_usdc, W_on, W_polygon>>
    /\ draft.chain = 137
    /\ draft.src = W_ETH

\* C5: a text "swap A to N B" parses to a swap from A to B of amount N with
\* reverse set.
C5_ReverseTemplate ==
    (pc = "parsed" /\ form = "reverse")
       => /\ draft.mode = "swap"
          /\ draft.src = CanonicalSymbol(phrase[2])
          /\ draft.dst = CanonicalSymbol(phrase[5])
          /\ draft.amount = phrase[4]
          /\ draft.reverse = "true"

C7_CaseAndSpaceInsensitive ==
    (pc = "parsed" /\ form \in {"swap", "stop", "trending"})
       => /\ draft # NullDraft
          /\ draft = quickParseCommand(Render(phrase, 1, 0, FALSE))

C7_Witness ==
    /\ pc = "parsed"
    /\ form = "stop"
    /\ command = Render(phrase, 2, 1, TRUE)
    /\ command # Render(phrase, 1, 0, FALSE)
    /\ draft.action = W_sell

\* C8: the amount of a returned Draft, when it has one, is greater than zero.
C8_AmountPositive ==
    (pc = "parsed" /\ draft.amount # <<>>) => parseFloat(draft.amount) > 0

\* the Draft names both tokens and an amount, and one of the tokens has no
\* address on the Draft's chain
UnsupportedPair(d) ==
    /\ d.src # <<>> /\ d.dst # <<>> /\ d.amount # <<>>
    /\ \/ d.chain # 8453
       \/ toUpperCase(d.src) \notin {W_ETH, W_USDC, W_USDT, W_DAI}
       \/ toUpperCase(d.dst) \notin {W_ETH, W_USDC, W_USDT, W_DAI}

\* validateDraft was called and the route has its answer
ValidateEnded == pc = "respond" /\ validated # NullDraft

\* C9 as stated: validateDraft always returns a result and never throws, and
\* for an unsupported pair the result is invalid with the unsupported-pair error.
C9_UnsupportedPairAlwaysTagged ==
    ValidateEnded
       => /\ validation.returned /\ threw = "none"
          /\ UnsupportedPair(validated)
                => (~validation.valid /\ validation.error = MsgUnsupportedPair)

\* C9 amended: validateDraft always returns a result and never throws; for an
\* unsupported pair the result is invalid, with the unsupported-pair error when
\* the 1inch API key is configured and with the missing-key error when it is not.
C9_ValidateTotal ==
    ValidateEnded
       => /\ validation.returned /\ threw = "none"
          /\ UnsupportedPair(validated)
                => /\ ~validation.valid
                   /\ validation.error = IF apiKey THEN MsgUnsupportedPair ELSE MsgNoApiKey

C9_Witness ==
    /\ ValidateEnded
    /\ apiKey
    /\ validated.chain = OPTIMISM
    /\ validation.returned
    /\ validation.error = MsgUnsupportedPair

\* validateDraft returned an invalid result before asking for a quote
EarlyFailure == ValidateEnded /\ validation.returned /\ ~validation.valid /\ ~quoteReq.sent

C12_TerminalStable ==
    [][(tracker \in {"Succeeded", "Failed"}) => (tracker' = tracker)]_vars

C12_Witness ==
    /\ tracker = "Succeeded"
    /\ txSent
    /\ execResult.type = "swap_ready"

\* C13: the execution of a Draft of mode stop is answered with the
\* not-implemented failure and with no other answer.
C13_StopNotImplemented ==
    (execResult.returned /\ draft.mode = "stop")
       => (~execResult.success /\ execResult.type = "not_implemented")

(***************************************************************************)
(* Vocabulary of the claims on predicates: the number a word holds, the    *)
(* selectors that name a predicate, the predicate a decoded object denotes *)
(* and the length the layout of a selector gives an encoding.              *)
(***************************************************************************)
\* the number held by a word whose upper 28 bytes are zero
WordValue(w) ==
    ((w[WordSize - 3] * 256 + w[WordSize - 2]) * 256 + w[WordSize - 1]) * 256 + w[WordSize]

KnownSelectors == {PREDICATE_SELECTORS[k] : k \in DOMAIN PREDICATE_SELECTORS}

DenotedType(selector) ==
    CASE selector = PREDICATE_SELECTORS.GT -> "PriceAbove"
      [] selector = PREDICATE_SELECTORS.LT -> "PriceBelow"
      [] selector = PREDICATE_SELECTORS.EQ -> "PriceEquals"
      [] selector = PREDICATE_SELECTORS.TIMESTAMP_BELOW -> "TimeAfter"
      [] selector = PREDICATE_SELECTORS.AND -> "And"
      [] selector = PREDICATE_SELECTORS.OR -> "Or"
      [] OTHER -> "none"

\* the predicate a decoded object describes: decodePredicate returns a selector, an
\* address and a value, and nothing else
Denoted(d) ==
    IF d.error \/ ~d.returned THEN NoPredicate
    ELSE LET type == DenotedType(d.selector)
         IN [type |-> type, feed |-> d.address,
             value |-> IF type \in {"PriceAbove", "PriceBelow", "PriceEquals"}
                       THEN WordValue(d.value) \div 100
                       ELSE WordValue(d.value),
             kids |-> <<>>]

\* the bytes do not follow the layout of a known selector
Malformed(x) ==
    \/ Len(x) < 4
    \/ SubSeq(x, 1, 4) \notin KnownSelectors
    \/ /\ SubSeq(x, 1, 4) \in {PREDICATE_SELECTORS.GT, PREDICATE_SELECTORS.LT,
                                PREDICATE_SELECTORS.EQ}
       /\ Len(x) # 3 * WordSize
    \/ /\ SubSeq(x, 1, 4) = PREDICATE_SELECTORS.TIMESTAMP_BELOW
       /\ Len(x) # 2 * WordSize
    \/ /\ SubSeq(x, 1, 4) \in {PREDICATE_SELECTORS.AND, PREDICATE_SELECTORS.OR}
       /\ Len(x) < 5 * WordSize

\* C14: decoding the bytes a builder returned for a predicate gives that predicate
\* back, for price, time and composite predicates alike.
C14_RoundTrip ==
    (pc = "decoded" /\ logical # NoPredicate) => (Denoted(decoded) = logical)

\* C15: decodePredicate answers an error for every byte string whose selector is
\* unknown or whose length is not the length of its selector's layout.
C15_MalformedRejected ==
    (pc = "decoded" /\ Malformed(predicate)) => decoded.error

\* C16: for "sell N T if price >= P" the predicate of the stop order is the
\* price-above predicate on the feed of T with threshold P, and for "<=" it is the
\* price-below predicate.
C16_ComparatorRespected ==
    (pc = "libAwaitQuote" /\ stage = "pattern" /\ form = "stop" /\ phrase[1] = W_sell)
       => LET feed == PRICE_FEEDS[CanonicalSymbol(phrase[3])]
              P == WrittenValue(phrase[7])
          IN /\ (phrase[6] = C_ge) => (predicate = buildGtPrice(feed, P))
             /\ (phrase[6] = C_le) => (predicate = buildLtPrice(feed, P))

\* C17: once parse has returned a Draft to its caller, every field of the Draft
\* keeps the value parse gave it, whatever handler works on it.
C17_DraftNeverMutated ==
    /\ (returned # NullDraft) => (draft = returned)
    /\ (validated # NullDraft) => (draft = validated)

\* C18: while executeIntent runs as a dry run, no transaction has been handed to
\* the wallet, and it does not answer that a swap was executed, whatever the Draft
\* and whatever the quote and swap services answered.
C18_DryRunSendsNothing ==
    dryRun => (~txSent /\ (cliResult.returned => cliResult.message # MsgSwapExecuted))

C18_Witness ==
    /\ dryRun
    /\ pc = "libDone"
    /\ draft.mode = "swap"
    /\ swapSent
    /\ cliResult.success
    /\ cliResult.message = MsgDryRunSwap

\* C19: the normalisers give a written token its canonical symbol, a known chain
\* name its chain id, and an unknown chain name the configured default chain.
C19_NormalizersTotal ==
    (pc = "libParsed" /\ stage = "pattern" /\ form = "swap")
       => /\ draft.src = CanonicalSymbol(SwapA)
          /\ draft.dst = CanonicalSymbol(SwapB)
          /\ SwapHasChain => (draft.chain = IF NamedChain(SwapChain) # 0
                                            THEN NamedChain(SwapChain)
                                            ELSE defaultChain)

\* C20: the completion service is called only for a text that no pattern matches.
C20_PatternFirst ==
    (aiCalls > 0) => (quickParseCommand(quickInput(command)) = NullDraft)

(***************************************************************************)
(* Vocabulary of the claim on the keyword fallback: the keywords of each   *)
(* class, and the classes whose keywords are among the words of a text.    *)
(***************************************************************************)
TradeWords == {W_swap, W_to}
ConditionalWords == {W_sell, W_buy, W_stop}
TrendingWords == {W_trending}
Says(words, keywords) == \E i \in 1..Len(words) : words[i] \in keywords

\* C21: a Draft of the keyword fallback is a swap when the text has a trade keyword,
\* a stop order when it has conditional keywords only, a trending query when it has
\* the trending keyword only, and unknown exactly when it has no keyword.
C21_FallbackClassifies ==
    (pc = "parsed" /\ stage = "fallback")
       => draft.mode = IF Says(phrase, TradeWords) THEN "swap"
                       ELSE IF Says(phrase, ConditionalWords) THEN "stop"
                       ELSE IF Says(phrase, TrendingWords) THEN "trending"
                       ELSE "unknown"

\* C22: an invocation of a component (parse, validate, transaction preparation) makes
\* at most one request to an outside service.
C22_OneCallPerInvocation == netCalls <= 1

\* the positions where the web application waits for an outside service: the
\* completion service, the quote service, the transaction-preparation service
AwaitingService == {"awaitAI", "awaitQuote", "awaitSwap"}

\* C23: every call to an outside service is bounded by a timeout: an operation that
\* waits for a service eventually stops waiting, whether or not the service answers.
C23_CallsBounded == (pc \in AwaitingService) ~> (pc \notin AwaitingService)

(***************************************************************************)
(* Vocabulary of the claims on quoted amounts.  The quote service counts   *)
(* an amount in the smallest unit of its token, 10^-decimals of one token, *)
(* where decimals is a fact of the token contract behind the address in    *)
(* TOKEN_ADDRESSES: 6 for USDC and USDT on Base, 18 for ETH and DAI.  A    *)
(* quantity of tokens is written m * 10^e millionths of one token; with    *)
(* the numbers of this module, below 2^31, two quantities with different   *)
(* exponents among 0 and 12 are equal only when both are zero.             *)
(***************************************************************************)
ContractDecimals(symbol) == IF symbol \in {W_USDC, W_USDT} THEN 6 ELSE 18

Quantity(m, e) == [m |-> m, e |-> e]

SameQuantity(a, b) == (a.m = 0 /\ b.m = 0) \/ a = b

\* the tokens that n, a number of the quote service in units of 10^12 smallest units,
\* stands for
TokensOf(symbol, n) == Quantity(n, 12 + 6 - ContractDecimals(symbol))

\* the tokens a decimal string in human-readable units stands for
TokensWritten(text) == Quantity(parseFloat(text), 0)

\* validateDraft returned a valid result for a swap Draft with a positive amount
ValidatedSwap ==
    /\ ValidateEnded /\ validation.valid /\ quoteReq.sent
    /\ validated.mode = "swap" /\ parseFloat(validated.amount) > 0

\* C24: for a valid swap Draft that is not reverse, validateDraft asks a quote for
\* exactly the Draft's amount of the source token, returns the Draft's amount as the
\* input amount and the quoted output, in human-readable units of the destination
\* token, as the output amount.
C24_ForwardQuote ==
    (ValidatedSwap /\ validated.reverse # "true")
       => /\ SameQuantity(TokensOf(quoteReq.src, quoteReq.amount),
                          TokensWritten(validated.amount))
          /\ validation.inputAmount = validated.amount
          /\ parseFloat(validation.outputAmount) # NaN
                => \E q \in QuoteBodies(quoteReq) :
                      /\ q.toTokenAmount # Undef
                      /\ SameQuantity(TokensWritten(validation.outputAmount),
                                      TokensOf(quoteReq.dst, q.toTokenAmount))

\* the quote bodies with a linear rate that explain the result validateDraft returned
LinearQuotes ==
    {q \in QuoteBodies(quoteReq) :
        /\ q.fromTokenAmount # Undef /\ q.fromTokenAmount > 0
        /\ q.toTokenAmount # Undef /\ q.toTokenAmount > 0
        /\ validation = validateDraft_result(validated, q)}

\* the input that yields the output o at the rate of quote q, in tokens of the source:
\* o * from / to, each amount in tokens of its own contract
SolvedInput(o, q) ==
    Quantity(MulDivRound(o, q.fromTokenAmount, q.toTokenAmount),
             TokensOf(quoteReq.src, q.fromTokenAmount).e
                - TokensOf(quoteReq.dst, q.toTokenAmount).e)

\* two quantities differ by at most one millionth of a token
Within(a, b) ==
    \/ SameQuantity(a, b)
    \/ a.e = b.e /\ a.e = 0 /\ a.m - b.m \in {0 - 1, 0, 1}

\* C25: for a reverse swap Draft and a quote service with a linear rate, validateDraft
\* returns the desired output as the output amount and, as the input amount, the input
\* that yields this output at the quoted rate, within a millionth of a token.
C25_ReverseSolved ==
    (ValidatedSwap /\ validated.reverse = "true")
       => \A q \in LinearQuotes :
             /\ validation.outputAmount = validated.amount
             /\ Within(TokensWritten(validation.inputAmount),
                       SolvedInput(parseFloat(validated.amount), q))

(***************************************************************************)
(* Vocabulary of the claim on price feeds: the network each feed lives on, *)
(* stated apart from the lookup.                                           *)
(***************************************************************************)
FeedOn(symbol, chain) == symbol \in {W_ETH, W_BTC, W_UNI, W_LINK} /\ chain = ETHEREUM

\* executeIntent has run on a stop Draft that names a trigger price
StopOrdered ==
    /\ pc \in {"libAwaitQuote", "libAwaitSwap", "libAwaitSend", "libDone"}
    /\ draft.mode = "stop" /\ draft.price # Undef /\ draft.price # 0

StopFeedSymbol == toUpperCase(stopFeedToken(draft))

TrackerMoves ==
    {<<"none", "Pending">>, <<"Pending", "Preparing">>,
     <<"Preparing", "AwaitingConfirmation">>, <<"Preparing", "Failed">>,
     <<"AwaitingConfirmation", "Submitted">>, <<"AwaitingConfirmation", "Failed">>,
     <<"Submitted", "Succeeded">>, <<"Submitted", "Failed">>}

C30_ReverseSendsSolvedInput ==
    (swapReq.sent /\ draft.reverse = "true" /\ validation.valid)
       => swapReq.amount = parseTokenAmount(validation.inputAmount)

\* every message of the user but one being waited for is followed by one message of
\* the assistant, and every message of the assistant after the greeting follows one
\* of the user
Answered ==
    \A i \in 2..Len(messages) :
       IF messages[i].type = "user"
       THEN IF i = Len(messages) THEN isLoading ELSE messages[i + 1].type = "assistant"
       ELSE messages[i - 1].type = "user"

\* C29: at most one request of the chat is in flight; a send attempted meanwhile
\* changes nothing; once the request settles isLoading is false again and exactly one
\* message of the assistant follows the message of the user.
C29_SingleFlight ==
    /\ [](inFlight <= 1 /\ (isLoading <=> inFlight = 1) /\ Answered)
    /\ [][isLoading => /\ inFlight' <= inFlight
                       /\ \/ messages' = messages
                          \/ /\ ~isLoading'
                             /\ Len(messages') = Len(messages) + 1
                             /\ messages'[Len(messages')].type = "assistant"]_vars

\* a request settled after a send was attempted, and ignored, while it was in flight
C29_Witness ==
    /\ sendOutcome = "loading"
    /\ ~isLoading
    /\ Len(messages) >= 3
    /\ messages[Len(messages)].type = "assistant"

====
